---------------------------- MODULE Spec2Model ----------------------------
(***************************************************************************)
(* Alpha Image Tools: the instruction compiler of the AI Editor            *)
(* (editImageWithGemini, services/geminiService) and the batch runner of   *)
(* components/EditorView.tsx.                                              *)
(*                                                                         *)
(* A JavaScript string that the code trims or interpolates is a sequence   *)
(* of one-character strings.  The instruction text finalPrompt is the      *)
(* sequence of the pieces the code appends with +=, one record per piece:  *)
(* the header that names the piece (stage), the branch of the code that    *)
(* wrote it (variant) and the values interpolated into it, in the order    *)
(* they appear in the template (text, nums, strs, filters).                *)
(***************************************************************************)
EXTENDS Integers, Sequences, FiniteSets, TLC

\* Longest watermark text / text-overlay content drawn as an input.
MaxTextLen == 2

\* Most fields in which a Settings input differs from its base value.
MaxChanged == 3

\* Most uploads in one behaviour.
MaxLoads == 2

(***************************************************************************)
(* Strings                                                                 *)
(***************************************************************************)
\* The characters inputs are drawn from: one white-space character and one
\* character that is not white space.
Chars == {" ", "a"}

WhiteSpace == {" ", "\t", "\n", "\r"}

RECURSIVE TextsOfLen(_)
TextsOfLen(n) ==
    IF n = 0 THEN {<<>>}
    ELSE {<<c>> \o t : c \in Chars, t \in TextsOfLen(n - 1)}

Texts == UNION {TextsOfLen(n) : n \in 0..MaxTextLen}

RECURSIVE trimStart(_)
trimStart(s) ==
    IF s = <<>> THEN <<>>
    ELSE IF Head(s) \in WhiteSpace THEN trimStart(Tail(s)) ELSE s

RECURSIVE trimEnd(_)
trimEnd(s) ==
    IF s = <<>> THEN <<>>
    ELSE IF s[Len(s)] \in WhiteSpace THEN trimEnd(SubSeq(s, 1, Len(s) - 1)) ELSE s

\* String.prototype.trim
trim(s) == trimEnd(trimStart(s))

\* A JavaScript string in a condition: the empty string is falsy.
Truthy(s) == s # <<>>

(***************************************************************************)
(* Settings                                                                *)
(***************************************************************************)
defaultSettings ==
    [ userPrompt         |-> <<"M", "a", "k", "e", " ", "t", "h", "i", "s", " ", "i", "m",
                                "a", "g", "e", " ", "l", "o", "o", "k", " ", "m", "o", "r",
                                "e", " ", "p", "r", "o", "f", "e", "s", "s", "i", "o", "n",
                                "a", "l", " ", "a", "n", "d", " ", "v", "i", "b", "r", "a",
                                "n", "t", ".">>,
      outputFormat       |-> "image/png",
      outputQuality      |-> 92,
      resizeConfig       |-> [enabled |-> FALSE, width |-> 1024, height |-> 1024,
                              maintainAspectRatio |-> TRUE],
      cropConfig         |-> [enabled |-> FALSE, x |-> 10, y |-> 10,
                              width |-> 80, height |-> 80],
      rotationAngle      |-> 0,
      textOverlayConfig  |-> [enabled |-> FALSE,
                              content |-> <<"Y", "o", "u", "r", " ", "T", "e", "x", "t", " ", "H", "e",
                                "r", "e">>,
                              font |-> "Arial, sans-serif", size |-> 48,
                              color |-> "#FFFFFF", positionX |-> 50, positionY |-> 50],
      filterConfig       |-> [grayscale |-> [enabled |-> FALSE, intensity |-> 100],
                              brightness |-> 100, contrast |-> 100],
      transparencyConfig |-> [method |-> "preserve", fillColor |-> "#FFFFFF"],
      watermarkConfig    |-> [enabled |-> FALSE,
                              text |-> <<"W", "a", "t", "e", "r", "m", "a", "r", "k">>,
                              opacity |-> 50, scale |-> 25, color |-> "#FFFFFF",
                              position |-> "bottom-right"] ]


(***************************************************************************)
(* Instruction compiler: editImageWithGemini                               *)
(***************************************************************************)
\* One piece of the instruction text.
Piece(stage, variant, text, nums, strs, filters) ==
    [stage |-> stage, variant |-> variant, text |-> text, nums |-> nums,
     strs |-> strs, filters |-> filters]

\* PromptHeader as it would be if an empty prompt were left out.
PromptHeaderIfAny(userPrompt) ==
    IF Truthy(userPrompt)
    THEN <<Piece("PROMPT", "", userPrompt, <<>>, <<>>, <<>>)>>
    ELSE <<>>

\* let finalPrompt = `Apply the following edits ... "${userPrompt}".`
PromptHeader(userPrompt) ==
    <<Piece("PROMPT", "", userPrompt, <<>>, <<>>, <<>>)>>

RotationInstructions(rotationAngle) ==
    IF rotationAngle # 0
    THEN <<Piece("ROTATION", "", <<>>, <<rotationAngle>>, <<>>, <<>>)>>
    ELSE <<>>

CropInstructions(cropConfig) ==
    IF cropConfig.enabled
    THEN <<Piece("CROP", "", <<>>,
                 <<cropConfig.x, cropConfig.y, cropConfig.width, cropConfig.height>>,
                 <<>>, <<>>)>>
    ELSE <<>>

\* filterInstructions as it would be if grayscale were pushed for every
\* non-zero intensity, whatever its enabled flag.
filterInstructionsByIntensity(filterConfig) ==
    (IF filterConfig.grayscale.intensity # 0
     THEN <<[kind |-> "grayscale", value |-> filterConfig.grayscale.intensity]>>
     ELSE <<>>)
    \o (IF filterConfig.brightness # 100
        THEN <<[kind |-> "brightness", value |-> filterConfig.brightness]>>
        ELSE <<>>)
    \o (IF filterConfig.contrast # 100
        THEN <<[kind |-> "contrast", value |-> filterConfig.contrast]>>
        ELSE <<>>)

\* const filterInstructions = []; ... push(...)
filterInstructions(filterConfig) ==
    (IF filterConfig.grayscale.enabled
     THEN <<[kind |-> "grayscale", value |-> filterConfig.grayscale.intensity]>>
     ELSE <<>>)
    \o (IF filterConfig.brightness # 100
        THEN <<[kind |-> "brightness", value |-> filterConfig.brightness]>>
        ELSE <<>>)
    \o (IF filterConfig.contrast # 100
        THEN <<[kind |-> "contrast", value |-> filterConfig.contrast]>>
        ELSE <<>>)

\* if (filterInstructions.length > 0) ... join('; ')
FilterInstructions(filterConfig) ==
    IF Len(filterInstructions(filterConfig)) > 0
    THEN <<Piece("FILTER", "", <<>>, <<>>, <<>>, filterInstructions(filterConfig))>>
    ELSE <<>>

\* TransparencyHandling as it would be if 'preserve' wrote nothing.
TransparencyHandlingNoPreserve(transparencyConfig) ==
    IF transparencyConfig.method = "fill"
    THEN <<Piece("TRANSPARENCY", "fill", <<>>, <<>>,
                 <<transparencyConfig.fillColor>>, <<>>)>>
    ELSE IF transparencyConfig.method = "dither"
    THEN <<Piece("TRANSPARENCY", "dither", <<>>, <<>>, <<>>, <<>>)>>
    ELSE <<>>

TransparencyHandling(transparencyConfig) ==
    IF transparencyConfig.method = "fill"
    THEN <<Piece("TRANSPARENCY", "fill", <<>>, <<>>,
                 <<transparencyConfig.fillColor>>, <<>>)>>
    ELSE IF transparencyConfig.method = "dither"
    THEN <<Piece("TRANSPARENCY", "dither", <<>>, <<>>, <<>>, <<>>)>>
    ELSE <<Piece("TRANSPARENCY", "preserve", <<>>, <<>>, <<>>, <<>>)>>

positionDescriptions ==
    [p \in {"top-left", "top-center", "top-right", "middle-left", "center",
            "middle-right", "bottom-left", "bottom-center", "bottom-right"} |->
        CASE p = "top-left"      -> "in the top-left corner"
          [] p = "top-center"    -> "centered horizontally at the top"
          [] p = "top-right"     -> "in the top-right corner"
          [] p = "middle-left"   -> "centered vertically on the left edge"
          [] p = "center"        -> "in the absolute center"
          [] p = "middle-right"  -> "centered vertically on the right edge"
          [] p = "bottom-left"   -> "in the bottom-left corner"
          [] p = "bottom-center" -> "centered horizontally at the bottom"
          [] p = "bottom-right"  -> "in the bottom-right corner"]

\* WatermarkInstructions as it would be if the text were tested untrimmed.
WatermarkInstructionsNoTrim(watermarkConfig) ==
    IF watermarkConfig.enabled /\ Truthy(watermarkConfig.text)
    THEN <<Piece("WATERMARK", "", trim(watermarkConfig.text),
                 <<watermarkConfig.scale, watermarkConfig.opacity>>,
                 <<watermarkConfig.color,
                   positionDescriptions[watermarkConfig.position]>>, <<>>)>>
    ELSE <<>>

WatermarkInstructions(watermarkConfig) ==
    IF watermarkConfig.enabled /\ Truthy(trim(watermarkConfig.text))
    THEN <<Piece("WATERMARK", "", trim(watermarkConfig.text),
                 <<watermarkConfig.scale, watermarkConfig.opacity>>,
                 <<watermarkConfig.color,
                   positionDescriptions[watermarkConfig.position]>>, <<>>)>>
    ELSE <<>>

\* ResizeInstructions as it would be if the two branches were exchanged.
ResizeInstructionsExchanged(resizeConfig) ==
    IF resizeConfig.enabled
    THEN IF ~resizeConfig.maintainAspectRatio
         THEN <<Piece("RESIZE", "fit within bounding box", <<>>,
                      <<resizeConfig.width, resizeConfig.height>>, <<>>, <<>>)>>
         ELSE <<Piece("RESIZE", "exact dimensions", <<>>,
                      <<resizeConfig.width, resizeConfig.height>>, <<>>, <<>>)>>
    ELSE <<>>

ResizeInstructions(resizeConfig) ==
    IF resizeConfig.enabled
    THEN IF resizeConfig.maintainAspectRatio
         THEN <<Piece("RESIZE", "fit within bounding box", <<>>,
                      <<resizeConfig.width, resizeConfig.height>>, <<>>, <<>>)>>
         ELSE <<Piece("RESIZE", "exact dimensions", <<>>,
                      <<resizeConfig.width, resizeConfig.height>>, <<>>, <<>>)>>
    ELSE <<>>

TextOverlayInstructions(textOverlayConfig) ==
    IF textOverlayConfig.enabled /\ Truthy(trim(textOverlayConfig.content))
    THEN <<Piece("TEXT OVERLAY", "", trim(textOverlayConfig.content),
                 <<textOverlayConfig.size, textOverlayConfig.positionX,
                   textOverlayConfig.positionY>>,
                 <<textOverlayConfig.color, textOverlayConfig.font>>, <<>>)>>
    ELSE <<>>

\* OutputFormat as it would be if every format were given the quality.
OutputFormatAlwaysQuality(outputFormat, outputQuality) ==
    <<Piece("OUTPUT FORMAT", "quality", <<>>, <<outputQuality>>,
            <<outputFormat>>, <<>>)>>

OutputFormat(outputFormat, outputQuality) ==
    IF outputFormat = "image/jpeg" \/ outputFormat = "image/webp"
    THEN <<Piece("OUTPUT FORMAT", "quality", <<>>, <<outputQuality>>,
                 <<outputFormat>>, <<>>)>>
    ELSE <<Piece("OUTPUT FORMAT", "lossless", <<>>, <<>>, <<outputFormat>>, <<>>)>>

\* finalPrompt as it would be if the watermark were written before the
\* transparency handling.
finalPromptWatermarkEarly(userPrompt, outputFormat, outputQuality, resizeConfig, cropConfig, rotationAngle, textOverlayConfig, filterConfig, transparencyConfig, watermarkConfig) ==
    PromptHeader(userPrompt)
    \o RotationInstructions(rotationAngle)
    \o CropInstructions(cropConfig)
    \o FilterInstructions(filterConfig)
    \o WatermarkInstructions(watermarkConfig)
    \o TransparencyHandling(transparencyConfig)
    \o ResizeInstructions(resizeConfig)
    \o TextOverlayInstructions(textOverlayConfig)
    \o OutputFormat(outputFormat, outputQuality)

\* finalPrompt as it would be if the resize were written after the text
\* overlay.
finalPromptResizeLate(userPrompt, outputFormat, outputQuality, resizeConfig, cropConfig, rotationAngle, textOverlayConfig, filterConfig, transparencyConfig, watermarkConfig) ==
    PromptHeader(userPrompt)
    \o RotationInstructions(rotationAngle)
    \o CropInstructions(cropConfig)
    \o FilterInstructions(filterConfig)
    \o TransparencyHandling(transparencyConfig)
    \o WatermarkInstructions(watermarkConfig)
    \o TextOverlayInstructions(textOverlayConfig)
    \o ResizeInstructions(resizeConfig)
    \o OutputFormat(outputFormat, outputQuality)

\* The text part of the request: finalPrompt after the last +=.
finalPrompt(userPrompt, outputFormat, outputQuality, resizeConfig, cropConfig, rotationAngle, textOverlayConfig, filterConfig, transparencyConfig, watermarkConfig) ==
    PromptHeader(userPrompt)
    \o RotationInstructions(rotationAngle)
    \o CropInstructions(cropConfig)
    \o FilterInstructions(filterConfig)
    \o TransparencyHandling(transparencyConfig)
    \o WatermarkInstructions(watermarkConfig)
    \o ResizeInstructions(resizeConfig)
    \o TextOverlayInstructions(textOverlayConfig)
    \o OutputFormat(outputFormat, outputQuality)

\* contents.parts of the generateContent call.
editImageWithGemini(base64ImageData, mimeType, userPrompt, outputFormat, outputQuality, resizeConfig, cropConfig, rotationAngle, textOverlayConfig, filterConfig, transparencyConfig, watermarkConfig) ==
    [inlineData |-> [data |-> base64ImageData, mimeType |-> mimeType],
     text |-> finalPrompt(userPrompt, outputFormat, outputQuality, resizeConfig,
                          cropConfig, rotationAngle, textOverlayConfig,
                          filterConfig, transparencyConfig, watermarkConfig)]

(***************************************************************************)
(* Inputs of the compiler                                                  *)
(***************************************************************************)
Prompts == {<<>>, <<"a">>}
Formats == {"image/png", "image/jpeg", "image/webp"}
Qualities == {1, 92}
RotationAngles == {0, 90}
Intensities == {0, 100}
Brightnesses == {100, 50}
Contrasts == {100, 150}
Methods == {"fill", "dither", "preserve"}
ResizeBoxes == {<<1024, 1024>>, <<100, 50>>}

\* A saved Settings value with every stage switched on.
fullSettings ==
    [ userPrompt         |-> <<"a">>,
      outputFormat       |-> "image/jpeg",
      outputQuality      |-> 92,
      resizeConfig       |-> [enabled |-> TRUE, width |-> 1024, height |-> 1024,
                              maintainAspectRatio |-> TRUE],
      cropConfig         |-> [enabled |-> TRUE, x |-> 10, y |-> 10,
                              width |-> 80, height |-> 80],
      rotationAngle      |-> 90,
      textOverlayConfig  |-> [enabled |-> TRUE, content |-> <<"a">>,
                              font |-> "Arial, sans-serif", size |-> 48,
                              color |-> "#FFFFFF", positionX |-> 50, positionY |-> 50],
      filterConfig       |-> [grayscale |-> [enabled |-> TRUE, intensity |-> 100],
                              brightness |-> 50, contrast |-> 150],
      transparencyConfig |-> [method |-> "fill", fillColor |-> "#FFFFFF"],
      watermarkConfig    |-> [enabled |-> TRUE, text |-> <<"a">>,
                              opacity |-> 50, scale |-> 25, color |-> "#FFFFFF",
                              position |-> "bottom-right"] ]

\* The Settings values that differ from s in at most one field.
OneFieldChanged(s) ==
    {[s EXCEPT !.userPrompt = v] : v \in Prompts}
    \cup {[s EXCEPT !.outputFormat = v] : v \in Formats}
    \cup {[s EXCEPT !.outputQuality = v] : v \in Qualities}
    \cup {[s EXCEPT !.rotationAngle = v] : v \in RotationAngles}
    \cup {[s EXCEPT !.cropConfig.enabled = v] : v \in BOOLEAN}
    \cup {[s EXCEPT !.filterConfig.grayscale.enabled = v] : v \in BOOLEAN}
    \cup {[s EXCEPT !.filterConfig.grayscale.intensity = v] : v \in Intensities}
    \cup {[s EXCEPT !.filterConfig.brightness = v] : v \in Brightnesses}
    \cup {[s EXCEPT !.filterConfig.contrast = v] : v \in Contrasts}
    \cup {[s EXCEPT !.transparencyConfig.method = v] : v \in Methods}
    \cup {[s EXCEPT !.watermarkConfig.enabled = v] : v \in BOOLEAN}
    \cup {[s EXCEPT !.watermarkConfig.text = v] : v \in Texts}
    \cup {[s EXCEPT !.resizeConfig.enabled = v] : v \in BOOLEAN}
    \cup {[s EXCEPT !.resizeConfig.maintainAspectRatio = v] : v \in BOOLEAN}
    \cup {[s EXCEPT !.resizeConfig.width = v[1], !.resizeConfig.height = v[2]] :
            v \in ResizeBoxes}
    \cup {[s EXCEPT !.textOverlayConfig.enabled = v] : v \in BOOLEAN}
    \cup {[s EXCEPT !.textOverlayConfig.content = v] : v \in Texts}

(***************************************************************************)
(* EditorView: the batch                                                   *)
(***************************************************************************)
\* string | null: null is the empty sequence, a value v is <<v>>.
null == <<>>

\* The files a user uploads: the first n of these, for an n of 1..MaxImages.
FileNames == <<"a.png", "b.jpg">>

MaxImages == Len(FileNames)

\* readable: whether a FileReader can read the file (it cannot when the file
\* was moved, deleted or locked after it was chosen).
Files(n) == [k \in 1..n |-> [name |-> FileNames[k], type |-> "image/png", data |-> k, readable |-> TRUE]]

\* The first n files, those at the indexes in unreadable not readable.
FilesWith(n, unreadable) == [k \in 1..n |-> [Files(n)[k] EXCEPT !.readable = k \notin unreadable]]

\* The lists of files a user may upload.
Uploads == UNION {{FilesWith(n, unreadable) : unreadable \in SUBSET (1..n)} : n \in 1..MaxImages}

\* A data URL is the sequence of its parts between commas: the header
\* "data:<type>;base64" and the payload.
fileToDataUrl(file) == <<<<"data:", file.type, ";base64">>, file.data>>

\* The ImageState handleImageSelect builds for file k of upload number no.
NewImage(no, k, file) ==
    [id |-> <<no, k>>, originalDataUrl |-> fileToDataUrl(file),
     originalFileName |-> file.name, originalFileType |-> file.type,
     editedUrl |-> null, isLoading |-> FALSE, error |-> null]

Ids(imgs) == {imgs[k].id : k \in DOMAIN imgs}

(***************************************************************************)
(* State                                                                   *)
(***************************************************************************)
VARIABLES
    settings,          \* const [settings, setSettings] = useState<Settings>
    images,            \* const [images, setImages] = useState<ImageState[]>
    isProcessing,      \* const [isProcessing, setIsProcessing] = useState
    progress,          \* const [progress, setProgress] = useState
    selectedImageIds,  \* const [selectedImageIds, setSelectedImageIds] = useState
    pending,           \* the uploads whose files handleImageSelect is still reading
    loads,             \* the number of uploads so far
    runs,              \* the invocations of the run handler that are at an await
    activeTool,        \* App: const [activeTool, setActiveTool] = useState
    autoCompress,      \* CompressorView: const [autoCompress, setAutoCompress] = useState
    quality,           \* CompressorView: const [quality, setQuality] = useState
    detailLevel,       \* CompressorView: const [detailLevel, setDetailLevel] = useState
    targetResolution,  \* CompressorView: const [targetResolution, setTargetResolution] = useState
    localStorage,      \* the item the store holds under LOCAL_STORAGE_KEY
    sent,              \* the calls of the service made so far (history)
    changed            \* the number of fields changed in choosing a compiler input

batch == <<images, isProcessing, progress, selectedImageIds, pending, loads>>
run == <<runs>>
compression == <<quality, detailLevel, targetResolution>>
app == <<activeTool, autoCompress, compression>>
vars == <<settings, localStorage, batch, run, app, sent, changed>>

\* JSON.stringify(value): the text whose parse is value.
JSONstringify(value) == IF DOMAIN value = {} THEN <<"null">> ELSE <<"json", value>>

\* JSON.parse(text): the value of a JSON text; it throws on any other text.
JSONparse(text) ==
    IF Len(text) = 1 /\ text[1] = "null"
    THEN [threw |-> FALSE, value |-> null]
    ELSE IF Len(text) = 2 /\ text[1] = "json"
    THEN [threw |-> FALSE, value |-> text[2]]
    ELSE [threw |-> TRUE, value |-> null]

\* An effect that stores the settings of the render before.
PersistLate == localStorage' = JSONstringify(settings)

\* The effect that follows every render with new settings:
\* localStorage.setItem(LOCAL_STORAGE_KEY, JSON.stringify(settings)).
Persist == localStorage' = JSONstringify(settings')

\* The same effect after the first render.
Persisted == localStorage = JSONstringify(settings)

InitBatch ==
    /\ images = <<>>
    /\ isProcessing = FALSE
    /\ progress = [current |-> 0, total |-> 0]
    /\ selectedImageIds = {}
    /\ pending = {}
    /\ loads = 0

\* No invocation of the run handler is under way.
InitRun == runs = <<>>

\* The App shows the view of tool, newly mounted.
InitApp(tool) ==
    /\ activeTool = tool
    /\ autoCompress = FALSE
    /\ quality = 75
    /\ detailLevel = 75
    /\ targetResolution = <<"o", "r", "i", "g", "i", "n", "a", "l">>

\* One call editImageWithGemini(base64Data, image.originalFileType,
\* settings.userPrompt, ...): the arguments, the request it sends, and the
\* index the calling loop was at.
Call(base64Data, mimeType, s, position) ==
    [settings |-> s,
     position |-> position,
     request  |-> editImageWithGemini(base64Data, mimeType, s.userPrompt,
                      s.outputFormat, s.outputQuality, s.resizeConfig,
                      s.cropConfig, s.rotationAngle, s.textOverlayConfig,
                      s.filterConfig, s.transparencyConfig, s.watermarkConfig)]

(***************************************************************************)
(* The compiler on its own: the inputs are every Settings value that       *)
(* differs in at most MaxChanged fields from the default (every optional   *)
(* stage off) or from fullSettings (every stage on); one call of           *)
(* editImageWithGemini compiles the value chosen.                          *)
(***************************************************************************)
ChooseSettings ==
    /\ sent = {}
    /\ changed < MaxChanged
    /\ settings' \in OneFieldChanged(settings) \ {settings}
    /\ Persist
    /\ changed' = changed + 1
    /\ UNCHANGED <<batch, run, sent>>

\* One call of editImageWithGemini with the current settings.
CompileCall ==
    /\ sent = {}
    /\ sent' = sent \cup {Call(1, "image/png", settings, 0)}
    /\ UNCHANGED <<settings, localStorage, batch, run, changed>>

InitCompile ==
    /\ settings \in {defaultSettings, fullSettings}
    /\ Persisted
    /\ InitBatch
    /\ InitRun
    /\ InitApp("editor")
    /\ sent = {}
    /\ changed = 0

NextCompile ==
    \/ ChooseSettings /\ UNCHANGED app
    \/ CompileCall /\ UNCHANGED app

SpecCompile == InitCompile /\ [][NextCompile]_vars

(***************************************************************************)
(* EditorView: the handlers.  A handler runs to its end, or to its next    *)
(* await, in one step; React has rendered before the next event, so a      *)
(* handler reads the state the step before it left.  A control is enabled  *)
(* as the render of that state enables it.                                 *)
(***************************************************************************)
\* The settings panel, the buttons and the image grid are rendered when
\* images.length > 0, the upload area when images.length === 0.
PanelShown == Len(images) > 0

handleReset ==
    /\ images' = <<>>
    /\ isProcessing' = FALSE
    /\ progress' = [current |-> 0, total |-> 0]
    /\ selectedImageIds' = {}

\* The "Start Over" button.
StartOver ==
    /\ PanelShown
    /\ ~isProcessing
    /\ handleReset
    /\ UNCHANGED <<settings, localStorage, pending, loads, run, sent, changed>>

\* handleImageSelect(files) up to its await: handleReset(), then the files
\* are read.
ImageSelectFiles(files) ==
    /\ ~PanelShown
    /\ loads < MaxLoads
    /\ handleReset
    /\ loads' = loads + 1
    /\ pending' = pending \cup {[no |-> loads + 1, files |-> files]}
    /\ UNCHANGED <<settings, localStorage, run, sent, changed>>

\* handleImageSelect for the first n files, all of them readable.
ImageSelect(n) == ImageSelectFiles(Files(n))

\* handleImageSelect after its await: every file is read, setImages(newImages);
\* or the read of a file fails, Promise.all rejects and the handler ends there.
ImageSelectDone(load) ==
    /\ load \in pending
    /\ pending' = pending \ {load}
    /\ IF \A k \in DOMAIN load.files : load.files[k].readable
       THEN images' = [k \in DOMAIN load.files |-> NewImage(load.no, k, load.files[k])]
       ELSE UNCHANGED images
    /\ UNCHANGED <<settings, localStorage, isProcessing, progress, selectedImageIds, loads, run,
                   sent, changed>>

\* A remove button that leaves the id of the image in the selection.
handleRemoveImageKeepingSelection(idToRemove) ==
    /\ PanelShown
    /\ ~isProcessing
    /\ idToRemove \in Ids(images)
    /\ images' = SelectSeq(images, LAMBDA img : img.id # idToRemove)
    /\ UNCHANGED <<settings, localStorage, isProcessing, progress, selectedImageIds, pending, loads,
                   run, sent, changed>>

handleRemoveImage(idToRemove) ==
    /\ PanelShown
    /\ ~isProcessing
    /\ idToRemove \in Ids(images)
    /\ images' = SelectSeq(images, LAMBDA img : img.id # idToRemove)
    /\ selectedImageIds' = selectedImageIds \ {idToRemove}
    /\ UNCHANGED <<settings, localStorage, isProcessing, progress, pending, loads, run, sent, changed>>

\* A checkbox that also takes the outcome of the image it is on away.
handleToggleSelectionClearing(id) ==
    /\ id \in Ids(images)
    /\ selectedImageIds' =
          IF id \in selectedImageIds THEN selectedImageIds \ {id}
          ELSE selectedImageIds \cup {id}
    /\ images' = [k \in DOMAIN images |->
                    IF images[k].id = id
                    THEN [images[k] EXCEPT !.editedUrl = null, !.error = null]
                    ELSE images[k]]
    /\ UNCHANGED <<settings, localStorage, isProcessing, progress, pending, loads, run, sent, changed>>

\* newSet, in handleToggleSelection: prev without id when it has it, prev
\* with id when not.
toggled(prev, id) == IF id \in prev THEN prev \ {id} ELSE prev \cup {id}

handleToggleSelection(id) ==
    /\ id \in Ids(images)
    /\ selectedImageIds' = toggled(selectedImageIds, id)
    /\ UNCHANGED <<settings, localStorage, images, isProcessing, progress, pending, loads, run,
                   sent, changed>>

\* images.length > 0 && selectedImageIds.size === images.length
allSelectedIn(imgs, selected) == Len(imgs) > 0 /\ Cardinality(selected) = Len(imgs)

allSelected == allSelectedIn(images, selectedImageIds)

\* What handleToggleSelectAll makes of a selection.
toggledAll(imgs, selected) == IF allSelectedIn(imgs, selected) THEN {} ELSE Ids(imgs)

handleToggleSelectAll ==
    /\ PanelShown
    /\ ~isProcessing
    /\ selectedImageIds' = toggledAll(images, selectedImageIds)
    /\ UNCHANGED <<settings, localStorage, images, isProcessing, progress, pending, loads, run,
                   sent, changed>>

\* What the user types into the prompt textarea: nothing, or the default again.
TypedPrompts == {<<>>, defaultSettings.userPrompt}

\* A prompt textarea that stays enabled while a run is active.
SetUserPromptWhileActive(value) ==
    /\ PanelShown
    /\ settings' = [settings EXCEPT !.userPrompt = value]
    /\ Persist
    /\ UNCHANGED <<batch, run, sent, changed>>

\* The prompt textarea: setSettings(s => ({...s, userPrompt: e.target.value})).
SetUserPrompt(value) ==
    /\ PanelShown
    /\ ~isProcessing
    /\ settings' = [settings EXCEPT !.userPrompt = value]
    /\ Persist
    /\ UNCHANGED <<batch, run, sent, changed>>

\* dataUrl.split(',')[1]
dataUrlToBase64(dataUrl) == dataUrl[2]

\* A loop whose instruction text is kept from one item of the run to the
\* next: every item after the first is sent the text twice over.
CallForKeepingText(image, s, position) ==
    LET c == Call(dataUrlToBase64(image.originalDataUrl), image.originalFileType, s, position)
    IN  IF position = 0
        THEN c
        ELSE [c EXCEPT !.request.text = c.request.text \o c.request.text]

\* The call the loop of handleGenerateEdits makes for image at index
\* position, with the settings its closure holds.
CallFor(image, s, position) == Call(dataUrlToBase64(image.originalDataUrl), image.originalFileType, s, position)

\* A run that leaves the earlier result of an image it starts on in place.
StartedItemKeepingResult(img) == [img EXCEPT !.isLoading = TRUE, !.error = null]

\* { ...img, isLoading: true, error: null, editedUrl: null }
StartedItem(img) == [img EXCEPT !.isLoading = TRUE, !.error = null, !.editedUrl = null]

\* { ...img, editedUrl: newImageUrl, isLoading: false }
SucceededItem(img, newImageUrl) == [img EXCEPT !.editedUrl = <<newImageUrl>>, !.isLoading = FALSE]

\* err.message || 'An unexpected error occurred.'
ErrorText(message) == IF message # "" THEN message ELSE "An unexpected error occurred."

\* { ...img, error: err.message || 'An unexpected error occurred.', isLoading: false }
FailedItem(img, message) == [img EXCEPT !.error = <<ErrorText(message)>>, !.isLoading = FALSE]

\* A "Generate" button that stays enabled, and a handler that goes on, while
\* a run is active.
handleGenerateEditsWhileActive ==
    /\ PanelShown
    /\ selectedImageIds # {}
    /\ LET toProcess == SelectSeq(images, LAMBDA img : img.id \in selectedImageIds) IN
       /\ IF Len(toProcess) = 0
          THEN UNCHANGED <<images, isProcessing, progress, run>>
          ELSE /\ isProcessing' = TRUE
               /\ progress' = [current |-> 0, total |-> Len(toProcess)]
               /\ images' = [k \in DOMAIN images |->
                               IF images[k].id \in selectedImageIds
                               THEN [images[k] EXCEPT !.isLoading = TRUE,
                                                      !.error = null,
                                                      !.editedUrl = null]
                               ELSE images[k]]
               /\ runs' = Append(runs, [imagesToProcess |-> toProcess, i |-> 0,
                                         settings |-> settings])
    /\ UNCHANGED <<settings, localStorage, selectedImageIds, pending, loads, changed>>

\* handleGenerateEdits up to its first await: the guard, the three state
\* updates and the first call of editImageWithGemini.
handleGenerateEdits ==
    /\ PanelShown
    /\ ~isProcessing
    /\ selectedImageIds # {}
    /\ LET toProcess == SelectSeq(images, LAMBDA img : img.id \in selectedImageIds) IN
       /\ IF Len(toProcess) = 0 \/ isProcessing
          THEN UNCHANGED <<images, isProcessing, progress, run>>
          ELSE /\ isProcessing' = TRUE
               /\ progress' = [current |-> 0, total |-> Len(toProcess)]
               /\ images' = [k \in DOMAIN images |->
                               IF images[k].id \in selectedImageIds
                               THEN StartedItem(images[k])
                               ELSE images[k]]
               /\ runs' = Append(runs, [imagesToProcess |-> toProcess, i |-> 0,
                                         settings |-> settings])
    /\ UNCHANGED <<settings, localStorage, selectedImageIds, pending, loads, changed>>

\* A collector that takes every image that is at rest.
editedImagesAtRest(imgs) == SelectSeq(imgs, LAMBDA img : ~img.isLoading)

\* handleDownloadAll: const editedImages = images.filter(img => img.editedUrl),
\* the images that go into the archive.
editedImages(imgs) == SelectSeq(imgs, LAMBDA img : img.editedUrl # null)

\* The messages an Error thrown by the call may carry.
ErrorMessages == {"No image was generated.", ""}

\* The image data the service may return.
ImageData == {1}

\* A loop that publishes the index of the item it has finished, counted from 0.
ProgressAfterFromZero(prev, i) == [prev EXCEPT !.current = i]

\* setProgress(prev => ({ ...prev, current: i + 1 }))
ProgressAfter(prev, i) == [prev EXCEPT !.current = i + 1]

\* The sequence s without its element at index r.
RemoveAt(s, r) == [k \in 1..(Len(s) - 1) |-> IF k < r THEN s[k] ELSE s[k + 1]]

\* A loop whose catch lets the failure of the last image out: the handler
\* ends there, before setIsProcessing(false).
TransformDoneFailureEscapes(r, ok, data, message) ==
    /\ r \in DOMAIN runs
    /\ LET image == runs[r].imagesToProcess[runs[r].i + 1]
           newImageUrl == <<<<"data:", runs[r].settings.outputFormat, ";base64">>, data>>
       IN  images' = [k \in DOMAIN images |->
                        IF images[k].id = image.id
                        THEN IF ok THEN SucceededItem(images[k], newImageUrl)
                             ELSE FailedItem(images[k], message)
                        ELSE images[k]]
    /\ progress' = ProgressAfter(progress, runs[r].i)
    /\ IF runs[r].i + 1 < Len(runs[r].imagesToProcess)
       THEN /\ runs' = [runs EXCEPT ![r].i = @ + 1]
            /\ UNCHANGED isProcessing
       ELSE /\ isProcessing' = ok
            /\ runs' = RemoveAt(runs, r)
    /\ UNCHANGED <<settings, localStorage, selectedImageIds, pending, loads, changed>>

\* A loop that takes each item out of the Selection when its call is over.
TransformDoneDeselecting(r, ok, data, message) ==
    /\ r \in DOMAIN runs
    /\ LET image == runs[r].imagesToProcess[runs[r].i + 1]
           newImageUrl == <<<<"data:", runs[r].settings.outputFormat, ";base64">>, data>>
       IN  /\ images' = [k \in DOMAIN images |->
                           IF images[k].id = image.id
                           THEN IF ok THEN SucceededItem(images[k], newImageUrl)
                                ELSE FailedItem(images[k], message)
                           ELSE images[k]]
           /\ selectedImageIds' = selectedImageIds \ {image.id}
    /\ progress' = ProgressAfter(progress, runs[r].i)
    /\ IF runs[r].i + 1 < Len(runs[r].imagesToProcess)
       THEN /\ runs' = [runs EXCEPT ![r].i = @ + 1]
            /\ UNCHANGED isProcessing
       ELSE /\ isProcessing' = FALSE
            /\ runs' = RemoveAt(runs, r)
    /\ UNCHANGED <<settings, localStorage, pending, loads, changed>>

\* The loop of invocation r of handleGenerateEdits from the await on: the
\* call for imagesToProcess[i] returns a data URL (ok) or throws, the image
\* and the progress are updated, and the loop makes its next call or ends.
TransformDone(r, ok, data, message) ==
    /\ r \in DOMAIN runs
    /\ LET image == runs[r].imagesToProcess[runs[r].i + 1]
           newImageUrl == <<<<"data:", runs[r].settings.outputFormat, ";base64">>, data>>
       IN  images' = [k \in DOMAIN images |->
                        IF images[k].id = image.id
                        THEN IF ok THEN SucceededItem(images[k], newImageUrl)
                             ELSE FailedItem(images[k], message)
                        ELSE images[k]]
    /\ progress' = ProgressAfter(progress, runs[r].i)
    /\ IF runs[r].i + 1 < Len(runs[r].imagesToProcess)
       THEN /\ runs' = [runs EXCEPT ![r].i = @ + 1]
            /\ UNCHANGED isProcessing
       ELSE /\ isProcessing' = FALSE
            /\ runs' = RemoveAt(runs, r)
    /\ UNCHANGED <<settings, localStorage, selectedImageIds, pending, loads, changed>>

\* The calls of editImageWithGemini a step of handleGenerateEdits makes: an
\* invocation calls it for imagesToProcess[i] whenever it comes to its await.
NewCalls ==
    {CallFor(runs'[r].imagesToProcess[runs'[r].i + 1], runs'[r].settings, runs'[r].i) :
        r \in {q \in DOMAIN runs' :
                 \/ q \notin DOMAIN runs
                 \/ Len(runs') = Len(runs) /\ runs'[q] # runs[q]}}

Init ==
    /\ settings = defaultSettings
    /\ Persisted
    /\ InitBatch
    /\ InitRun
    /\ InitApp("editor")
    /\ sent = {}
    /\ changed = 0

\* The user's actions on the batch and the settings.
UserAction ==
    \/ StartOver
    \/ \E n \in 1..MaxImages : ImageSelect(n)
    \/ \E load \in pending : ImageSelectDone(load)
    \/ \E id \in Ids(images) : handleRemoveImage(id)
    \/ \E id \in Ids(images) : handleToggleSelection(id)
    \/ handleToggleSelectAll
    \/ \E value \in TypedPrompts : SetUserPrompt(value)

\* The steps of handleGenerateEdits.
RunStep ==
    \/ handleGenerateEdits
    \/ \E r \in DOMAIN runs, data \in ImageData : TransformDone(r, TRUE, data, "")
    \/ \E r \in DOMAIN runs, message \in ErrorMessages : TransformDone(r, FALSE, 0, message)

\* The Editor; the calls it makes are not recorded.
Next ==
    \/ UserAction /\ UNCHANGED app
    \/ RunStep /\ UNCHANGED <<app, sent>>

Spec == Init /\ [][Next]_vars

\* The Editor with the record sent of the calls it makes.
NextCalls ==
    \/ UserAction /\ UNCHANGED app
    \/ RunStep /\ UNCHANGED app /\ sent' = sent \cup NewCalls

SpecCalls == Init /\ [][NextCalls]_vars

(***************************************************************************)
(* EditorView: the numeric inputs of the settings panel.  A number input   *)
(* hands its handler the text that was typed, whatever its min and max     *)
(* attributes say (they bound the stepper, not the keyboard), and the      *)
(* empty text when what was typed is no number; a range input hands it a   *)
(* number between its min and max.                                         *)
(***************************************************************************)
\* The number of edits of the settings panel that are followed.
MaxEdits == 2

Digits == <<"0", "1", "2", "3", "4", "5", "6", "7", "8", "9">>

DigitValue(c) == (CHOOSE d \in DOMAIN Digits : Digits[d] = c) - 1

IsDigit(c) == \E d \in DOMAIN Digits : Digits[d] = c

\* The value of the longest run of digits at the head of str, after acc.
RECURSIVE DigitsValue(_, _)
DigitsValue(str, acc) ==
    IF str = <<>> \/ ~IsDigit(Head(str))
    THEN acc
    ELSE DigitsValue(Tail(str), 10 * acc + DigitValue(Head(str)))

\* parseInt(str): NaN when str does not start with a number.
parseInt(str) ==
    LET negative == str # <<>> /\ Head(str) = "-"
        body == IF negative THEN Tail(str) ELSE str
    IN  IF body = <<>> \/ ~IsDigit(Head(body))
        THEN [nan |-> TRUE, value |-> 0]
        ELSE [nan |-> FALSE,
              value |-> IF negative THEN 0 - DigitsValue(body, 0) ELSE DigitsValue(body, 0)]

\* parseInt(e.target.value) || 0
parseIntOrZero(str) == IF parseInt(str).nan THEN 0 ELSE parseInt(str).value

\* What the user types into a number input.
TypedNumbers == {<<>>, <<"4", "5">>, <<"9", "9", "9">>, <<"-", "5">>}

\* Where the user leaves the slider of the rotation and of the intensity.
SliderAngles == {<<"-", "1", "8", "0">>, <<"9", "0">>}
SliderPercents == {<<"0">>, <<"5", "0">>}

\* A control of the settings panel is shown with the panel and enabled
\* while no run is active.
PanelEnabled ==
    /\ PanelShown
    /\ ~isProcessing
    /\ changed < MaxEdits
    /\ changed' = changed + 1

\* The rotation slider: rotationAngle: parseInt(e.target.value)
RotationRange(value) ==
    /\ PanelEnabled
    /\ settings' = [settings EXCEPT !.rotationAngle = parseInt(value).value]
    /\ Persist
    /\ UNCHANGED <<batch, run, sent>>

\* The rotation number input: rotationAngle: parseInt(e.target.value) || 0
RotationNumber(value) ==
    /\ PanelEnabled
    /\ settings' = [settings EXCEPT !.rotationAngle = parseIntOrZero(value)]
    /\ Persist
    /\ UNCHANGED <<batch, run, sent>>

\* The "Reset Rotation" button.
RotationReset ==
    /\ PanelEnabled
    /\ settings.rotationAngle # 0
    /\ settings' = [settings EXCEPT !.rotationAngle = 0]
    /\ Persist
    /\ UNCHANGED <<batch, run, sent>>

\* The checkbox cropEnabled.
CropEnabled ==
    /\ PanelEnabled
    /\ settings' = [settings EXCEPT !.cropConfig.enabled = ~@]
    /\ Persist
    /\ UNCHANGED <<batch, run, sent>>

CropFields == {"x", "y", "width", "height"}

\* The number inputs cropX, cropY, cropWidth and cropHeight:
\* cropConfig: { ...s.cropConfig, [field]: parseInt(e.target.value) || 0 }
CropNumber(field, value) ==
    /\ PanelEnabled
    /\ settings.cropConfig.enabled
    /\ settings' = [settings EXCEPT !.cropConfig[field] = parseIntOrZero(value)]
    /\ Persist
    /\ UNCHANGED <<batch, run, sent>>

\* The checkbox grayscaleEnabled.
GrayscaleEnabled ==
    /\ PanelEnabled
    /\ settings' = [settings EXCEPT !.filterConfig.grayscale.enabled = ~@]
    /\ Persist
    /\ UNCHANGED <<batch, run, sent>>

\* The slider grayscaleIntensity: intensity: parseInt(e.target.value)
GrayscaleRange(value) ==
    /\ PanelEnabled
    /\ settings.filterConfig.grayscale.enabled
    /\ settings' = [settings EXCEPT !.filterConfig.grayscale.intensity = parseInt(value).value]
    /\ Persist
    /\ UNCHANGED <<batch, run, sent>>

\* The number input of the intensity: intensity: parseInt(e.target.value) || 0
GrayscaleNumber(value) ==
    /\ PanelEnabled
    /\ settings.filterConfig.grayscale.enabled
    /\ settings' = [settings EXCEPT !.filterConfig.grayscale.intensity = parseIntOrZero(value)]
    /\ Persist
    /\ UNCHANGED <<batch, run, sent>>

\* One edit of a numeric setting.
SettingsEdit ==
    \/ \E value \in SliderAngles : RotationRange(value)
    \/ \E value \in TypedNumbers : RotationNumber(value)
    \/ RotationReset
    \/ CropEnabled
    \/ \E field \in CropFields, value \in TypedNumbers : CropNumber(field, value)
    \/ GrayscaleEnabled
    \/ \E value \in SliderPercents : GrayscaleRange(value)
    \/ \E value \in TypedNumbers : GrayscaleNumber(value)

\* The Editor with one file uploaded at a time, its settings panel and its
\* run handler.
NextSettings ==
    \/ ImageSelect(1) /\ UNCHANGED app
    \/ \E load \in pending : ImageSelectDone(load) /\ UNCHANGED app
    \/ \E id \in Ids(images) : handleToggleSelection(id) /\ UNCHANGED app
    \/ SettingsEdit /\ UNCHANGED app
    \/ RunStep /\ UNCHANGED <<app, sent>>

SpecSettings == Init /\ [][NextSettings]_vars

(***************************************************************************)
(* EditorView: the settings a new EditorView starts with.  The initializer *)
(* of useState reads localStorage[LOCAL_STORAGE_KEY], which holds what an  *)
(* earlier visit, another version of the page or anything else with access *)
(* to the store has left there.                                            *)
(***************************************************************************)
\* The conditions the store may be in when the Editor is mounted.
Stores ==
    {"throws", "absent", "empty", "unparseable", "null", "missing fields",
     "wrong type", "default", "full"}

\* localStorage.getItem(LOCAL_STORAGE_KEY) in each of them: it throws, or
\* returns null (no item) or the text of the item.
getItem(store) ==
    CASE store = "throws"         -> [threw |-> TRUE, savedState |-> null]
      [] store = "absent"         -> [threw |-> FALSE, savedState |-> null]
      [] store = "empty"          -> [threw |-> FALSE, savedState |-> <<>>]
      [] store = "unparseable"    -> [threw |-> FALSE, savedState |-> <<"{">>]
      [] store = "null"           -> [threw |-> FALSE, savedState |-> <<"null">>]
      [] store = "missing fields" ->
            [threw |-> FALSE,
             savedState |-> JSONstringify([userPrompt |-> defaultSettings.userPrompt])]
      [] store = "wrong type"     ->
            [threw |-> FALSE,
             savedState |-> JSONstringify([defaultSettings EXCEPT !.cropConfig = null])]
      [] store = "default"        ->
            [threw |-> FALSE, savedState |-> JSONstringify(defaultSettings)]
      [] store = "full"           ->
            [threw |-> FALSE, savedState |-> JSONstringify(fullSettings)]

\* useState<Settings>(() => { try { const savedState = localStorage.getItem(..);
\*   return savedState ? JSON.parse(savedState) : defaultSettings;
\* } catch (e) { return defaultSettings; } })
InitialSettings(store) ==
    LET item == getItem(store)
    IN  IF item.threw
        THEN defaultSettings
        ELSE IF Truthy(item.savedState)
        THEN IF JSONparse(item.savedState).threw
             THEN defaultSettings
             ELSE JSONparse(item.savedState).value
        ELSE defaultSettings

\* The same initializer on the item of a store that can be read.
savedSettings(savedState) ==
    IF Truthy(savedState)
    THEN IF JSONparse(savedState).threw
         THEN defaultSettings
         ELSE JSONparse(savedState).value
    ELSE defaultSettings

\* A value has the fields of a Settings value, and objects where a Settings
\* value has objects.
MatchesSchema(s) ==
    /\ DOMAIN s = DOMAIN defaultSettings
    /\ \A f \in {"resizeConfig", "cropConfig", "textOverlayConfig", "filterConfig",
                 "transparencyConfig", "watermarkConfig"} :
          DOMAIN s[f] = DOMAIN defaultSettings[f]
    /\ DOMAIN s.filterConfig.grayscale = DOMAIN defaultSettings.filterConfig.grayscale

\* The render of the panel reads settings.userPrompt, settings.cropConfig.enabled
\* and so on: it throws when settings is null or lacks an object, and with
\* no error boundary the whole tree is unmounted.  So it is when the effect
\* that saves the settings throws, which it does after the first render on a
\* store that cannot be used: nothing is stored then.
Crashed ==
    \/ localStorage = null
    \/ PanelShown /\ ~MatchesSchema(settings)

InitLoad ==
    /\ \E store \in Stores :
          /\ settings = InitialSettings(store)
          /\ localStorage = IF getItem(store).threw THEN null ELSE JSONstringify(settings)
    /\ InitBatch
    /\ InitRun
    /\ InitApp("editor")
    /\ sent = {}
    /\ changed = 0

\* The Editor from any store: what is rendered can be used.
NextLoad ==
    \/ ~Crashed /\ ImageSelect(1) /\ UNCHANGED app
    \/ ~Crashed /\ \E load \in pending : ImageSelectDone(load) /\ UNCHANGED app
    \/ ~Crashed /\ \E id \in Ids(images) : handleToggleSelection(id) /\ UNCHANGED app
    \/ ~Crashed /\ SettingsEdit /\ UNCHANGED app
    \/ ~Crashed /\ RunStep /\ UNCHANGED <<app, sent>>

SpecLoad == InitLoad /\ [][NextLoad]_vars

(***************************************************************************)
(* UpscalerView.  Its state is images, isProcessing and progress, as the   *)
(* Editor's; the App mounts one view at a time, so the variables hold the  *)
(* state of the mounted view.                                              *)
(***************************************************************************)
\* URL.createObjectURL(file)
createObjectURL(no, k) == <<"blob:", no, k>>

\* The ImageState the Upscaler's handleImageSelect builds for file k of
\* upload number no.
U_NewImage(no, k, file) ==
    [id |-> <<no, k>>, originalFile |-> file, originalUrl |-> createObjectURL(no, k),
     upscaledUrl |-> null, isLoading |-> FALSE, error |-> null]

U_handleReset ==
    /\ images' = <<>>
    /\ isProcessing' = FALSE
    /\ progress' = [current |-> 0, total |-> 0]

\* The Upscaler's "Start Over" button.
U_StartOver ==
    /\ PanelShown
    /\ ~isProcessing
    /\ U_handleReset
    /\ UNCHANGED <<settings, localStorage, selectedImageIds, pending, loads, run, app, sent, changed>>

\* The Upscaler's handleImageSelect: handleReset(), then setImages(newImages);
\* the later setImages is the one that stays.
U_handleImageSelectFiles(files) ==
    /\ ~PanelShown
    /\ loads < MaxLoads
    /\ loads' = loads + 1
    /\ images' = [k \in DOMAIN files |-> U_NewImage(loads + 1, k, files[k])]
    /\ isProcessing' = FALSE
    /\ progress' = [current |-> 0, total |-> 0]
    /\ UNCHANGED <<settings, localStorage, selectedImageIds, pending, run, app, sent, changed>>

\* The Upscaler's handleImageSelect for the first n files, all of them readable.
U_handleImageSelect(n) == U_handleImageSelectFiles(Files(n))

\* { ...img, isLoading: true, error: null }
U_StartedItem(img) == [img EXCEPT !.isLoading = TRUE, !.error = null]

\* handleUpscale up to its await: the guard, the three state updates, and
\* processImage begun for every image of the closure.
handleUpscale ==
    /\ PanelShown
    /\ ~isProcessing
    /\ IF Len(images) = 0 \/ isProcessing
       THEN UNCHANGED <<images, isProcessing, progress, run>>
       ELSE /\ isProcessing' = TRUE
            /\ progress' = [current |-> 0, total |-> Len(images)]
            /\ images' = [k \in DOMAIN images |-> U_StartedItem(images[k])]
            /\ runs' = Append(runs, [images |-> images,
                                     updatedImages |-> [k \in DOMAIN images |-> null]])
    /\ UNCHANGED <<settings, localStorage, selectedImageIds, pending, loads, app, sent, changed>>

\* The messages an Error thrown in processImage may carry.
U_ErrorMessages == {"No upscaled image was generated.", ""}

\* What processImage(image) returns: image is the closure's ImageState.
processImage(image, ok, data, message) ==
    IF ok
    THEN [image EXCEPT !.upscaledUrl = <<<<<<"data:", "image/png", ";base64">>, data>>>>,
                       !.isLoading = FALSE]
    ELSE [image EXCEPT !.error = <<ErrorText(message)>>, !.isLoading = FALSE]

\* A processImage that counts an image when its call returns and again in
\* its finally.
U_ProgressAfterTwice(prev) == [prev EXCEPT !.current = prev.current + 2]

\* setProgress(prev => ({ ...prev, current: prev.current + 1 }))
U_ProgressAfter(prev) == [prev EXCEPT !.current = prev.current + 1]

\* processImage for image k of invocation r of handleUpscale settles: its
\* finally adds one to progress.current, and when it is the last one
\* Promise.all resolves: setImages(updatedImages), setIsProcessing(false).
ProcessImageDone(r, k, ok, data, message) ==
    /\ r \in DOMAIN runs
    /\ k \in DOMAIN runs[r].images
    /\ runs[r].updatedImages[k] = null
    /\ ok => runs[r].images[k].originalFile.readable
    /\ progress' = U_ProgressAfter(progress)
    /\ LET updatedImages ==
               [runs[r].updatedImages EXCEPT
                   ![k] = <<processImage(runs[r].images[k], ok, data, message)>>]
       IN  IF \A j \in DOMAIN updatedImages : updatedImages[j] # null
           THEN /\ images' = [j \in DOMAIN updatedImages |-> updatedImages[j][1]]
                /\ isProcessing' = FALSE
                /\ runs' = RemoveAt(runs, r)
           ELSE /\ runs' = [runs EXCEPT ![r].updatedImages = updatedImages]
                /\ UNCHANGED <<images, isProcessing>>
    /\ UNCHANGED <<settings, localStorage, selectedImageIds, pending, loads, app, sent, changed>>

UpscalerNext ==
    \/ U_StartOver
    \/ \E n \in 1..MaxImages : U_handleImageSelect(n)
    \/ handleUpscale
    \/ \E r \in DOMAIN runs, k \in 1..MaxImages, data \in ImageData :
          ProcessImageDone(r, k, TRUE, data, "")
    \/ \E r \in DOMAIN runs, k \in 1..MaxImages, message \in U_ErrorMessages :
          ProcessImageDone(r, k, FALSE, 0, message)

(***************************************************************************)
(* CompressorView.                                                         *)
(***************************************************************************)
\* The ImageState the Compressor's handleImageSelect builds for file k of
\* upload number no.
C_NewImage(no, k, file) ==
    [id |-> <<no, k>>, originalFile |-> file, originalUrl |-> createObjectURL(no, k),
     compressedUrl |-> null, isLoading |-> FALSE, error |-> null]

\* The Compressor's handleReset: the settings, autoCompress among them, stay.
C_handleReset ==
    /\ images' = <<>>
    /\ isProcessing' = FALSE
    /\ progress' = [current |-> 0, total |-> 0]

\* The Compressor's "Start Over" button.
C_StartOver ==
    /\ PanelShown
    /\ ~isProcessing
    /\ C_handleReset
    /\ UNCHANGED <<settings, localStorage, selectedImageIds, pending, loads, run, app, sent, changed>>

\* The Compressor's handleImageSelect: handleReset(), then setImages(newImages).
C_handleImageSelectFiles(files) ==
    /\ ~PanelShown
    /\ loads < MaxLoads
    /\ loads' = loads + 1
    /\ images' = [k \in DOMAIN files |-> C_NewImage(loads + 1, k, files[k])]
    /\ isProcessing' = FALSE
    /\ progress' = [current |-> 0, total |-> 0]
    /\ UNCHANGED <<settings, localStorage, selectedImageIds, pending, run, app, sent, changed>>

\* The Compressor's handleImageSelect for the first n files, all of them readable.
C_handleImageSelect(n) == C_handleImageSelectFiles(Files(n))

\* The "Auto-start" checkbox: setAutoCompress(prev => !prev).
ToggleAutoCompress ==
    /\ PanelShown
    /\ ~isProcessing
    /\ autoCompress' = ~autoCompress
    /\ UNCHANGED <<settings, localStorage, batch, run, activeTool, compression, sent, changed>>

\* { ...img, isLoading: true, error: null, compressedUrl: null }
C_StartedItem(img) == [img EXCEPT !.isLoading = TRUE, !.error = null, !.compressedUrl = null]

\* { ...img, compressedUrl: newImageUrl, isLoading: false }
C_SucceededItem(img, newImageUrl) == [img EXCEPT !.compressedUrl = <<newImageUrl>>, !.isLoading = FALSE]

\* { ...img, error: err.message || 'An unexpected error occurred.', isLoading: false }
C_FailedItem(img, message) == [img EXCEPT !.error = <<ErrorText(message)>>, !.isLoading = FALSE]

\* handleCompress up to its first await: the guard, the three state updates,
\* and the loop begun on the images of the closure.
handleCompress ==
    /\ IF Len(images) = 0 \/ isProcessing
       THEN UNCHANGED <<images, isProcessing, progress, run>>
       ELSE /\ isProcessing' = TRUE
            /\ progress' = [current |-> 0, total |-> Len(images)]
            /\ images' = [k \in DOMAIN images |-> C_StartedItem(images[k])]
            /\ runs' = Append(runs, [images |-> images, i |-> 0])
    /\ UNCHANGED <<settings, localStorage, selectedImageIds, pending, loads, app, sent, changed>>

\* The "Compress" button.
Compress ==
    /\ PanelShown
    /\ ~isProcessing
    /\ handleCompress

\* A condition that looks only at whether the first image is at rest, not
\* at whether it has an outcome.
hasImagesAtRest ==
    /\ Len(images) > 0
    /\ ~images[1].isLoading

\* const hasUnprocessedImages, in the effect.
hasUnprocessedImages ==
    /\ Len(images) > 0
    /\ ~images[1].isLoading
    /\ images[1].compressedUrl = null
    /\ images[1].error = null

\* The effect calls handleCompress: it runs after the render of a state in
\* which its condition holds, before any other event is handled.
EffectDue == autoCompress /\ ~isProcessing /\ hasUnprocessedImages

AutoCompress ==
    /\ EffectDue
    /\ handleCompress

\* The output format of the Compressor: the initial value of its useState.
C_outputFormat == "image/png"

\* A loop that takes the images of its closure from the last to the first.
CompressDoneBackwards(r, ok, data, message) ==
    /\ r \in DOMAIN runs
    /\ ok => runs[r].images[Len(runs[r].images) - runs[r].i].originalFile.readable
    /\ LET image == runs[r].images[Len(runs[r].images) - runs[r].i]
           newImageUrl == <<<<"data:", C_outputFormat, ";base64">>, data>>
       IN  images' = [k \in DOMAIN images |->
                        IF images[k].id = image.id
                        THEN IF ok THEN C_SucceededItem(images[k], newImageUrl)
                             ELSE C_FailedItem(images[k], message)
                        ELSE images[k]]
    /\ progress' = ProgressAfter(progress, runs[r].i)
    /\ IF runs[r].i + 1 < Len(runs[r].images)
       THEN /\ runs' = [runs EXCEPT ![r].i = @ + 1]
            /\ UNCHANGED isProcessing
       ELSE /\ isProcessing' = FALSE
            /\ runs' = RemoveAt(runs, r)
    /\ UNCHANGED <<settings, localStorage, selectedImageIds, pending, loads, app, sent, changed>>

\* The loop of invocation r of handleCompress from its awaits on: the file
\* is read and the call for images[i] returns a data URL (ok), or one of the
\* two throws; the image and the progress are updated, and the loop goes on
\* to its next image or ends.
CompressDone(r, ok, data, message) ==
    /\ r \in DOMAIN runs
    /\ ok => runs[r].images[runs[r].i + 1].originalFile.readable
    /\ LET image == runs[r].images[runs[r].i + 1]
           newImageUrl == <<<<"data:", C_outputFormat, ";base64">>, data>>
       IN  images' = [k \in DOMAIN images |->
                        IF images[k].id = image.id
                        THEN IF ok THEN C_SucceededItem(images[k], newImageUrl)
                             ELSE C_FailedItem(images[k], message)
                        ELSE images[k]]
    /\ progress' = ProgressAfter(progress, runs[r].i)
    /\ IF runs[r].i + 1 < Len(runs[r].images)
       THEN /\ runs' = [runs EXCEPT ![r].i = @ + 1]
            /\ UNCHANGED isProcessing
       ELSE /\ isProcessing' = FALSE
            /\ runs' = RemoveAt(runs, r)
    /\ UNCHANGED <<settings, localStorage, selectedImageIds, pending, loads, app, sent, changed>>

CompressorNext ==
    \/ AutoCompress
    \/ ~EffectDue /\ C_StartOver
    \/ ~EffectDue /\ \E n \in 1..MaxImages : C_handleImageSelect(n)
    \/ ~EffectDue /\ ToggleAutoCompress
    \/ ~EffectDue /\ Compress
    \/ ~EffectDue /\ \E r \in DOMAIN runs, data \in ImageData : CompressDone(r, TRUE, data, "")
    \/ ~EffectDue /\ \E r \in DOMAIN runs, message \in ErrorMessages : CompressDone(r, FALSE, 0, message)

(***************************************************************************)
(* App: one view is mounted at a time.  The component that calls           *)
(* setActiveTool is not among the sources, so a change of tool may come in *)
(* any state.  The view that is left is unmounted: its state is gone, and  *)
(* what its handlers still set when their awaits return sets nothing.  The *)
(* Editor's settings are the ones persisted, which a new EditorView reads. *)
(***************************************************************************)
Tools == {"compressor", "editor", "upscaler"}

setActiveTool(tool) ==
    /\ tool # activeTool
    /\ ~(activeTool = "compressor" /\ EffectDue)
    /\ activeTool' = tool
    /\ autoCompress' = FALSE
    /\ quality' = 75
    /\ detailLevel' = 75
    /\ targetResolution' = <<"o", "r", "i", "g", "i", "n", "a", "l">>
    /\ images' = <<>>
    /\ isProcessing' = FALSE
    /\ progress' = [current |-> 0, total |-> 0]
    /\ selectedImageIds' = {}
    /\ pending' = {}
    /\ runs' = <<>>
    /\ UNCHANGED <<settings, localStorage, loads, sent, changed>>

InitRunners ==
    /\ settings = defaultSettings
    /\ Persisted
    /\ InitBatch
    /\ InitRun
    /\ InitApp("compressor")
    /\ sent = {}
    /\ changed = 0

NextRunners ==
    \/ \E tool \in Tools : setActiveTool(tool)
    \/ activeTool = "editor" /\ UserAction /\ UNCHANGED app
    \/ activeTool = "editor" /\ RunStep /\ UNCHANGED <<app, sent>>
    \/ activeTool = "upscaler" /\ UpscalerNext
    \/ activeTool = "compressor" /\ CompressorNext

\* The three runners, one mounted at a time.
SpecRunners == InitRunners /\ [][NextRunners]_vars

\* A call of the service that a run is waiting on returns or throws.
CallSettles ==
    \/ /\ activeTool = "editor"
       /\ \E r \in DOMAIN runs, ok \in BOOLEAN, data \in ImageData, message \in ErrorMessages :
             TransformDone(r, ok, data, message)
       /\ UNCHANGED <<app, sent>>
    \/ /\ activeTool = "upscaler"
       /\ \E r \in DOMAIN runs, k \in 1..MaxImages, ok \in BOOLEAN, data \in ImageData, message \in U_ErrorMessages :
             ProcessImageDone(r, k, ok, data, message)
    \/ /\ activeTool = "compressor"
       /\ ~EffectDue
       /\ \E r \in DOMAIN runs, ok \in BOOLEAN, data \in ImageData, message \in ErrorMessages :
             CompressDone(r, ok, data, message)

\* The three runners with a service whose every call returns or throws in
\* the end.
SpecRunnersFair == SpecRunners /\ WF_vars(CallSettles)

\* A run of handleGenerateEdits is at its await only while isProcessing.
RunImpliesProcessing == runs # <<>> => isProcessing

(***************************************************************************)
(* Properties of the compiled instruction text                             *)
(***************************************************************************)
\* The stage headers of an instruction text, in order.
StagesOf(text) == [k \in DOMAIN text |-> text[k].stage]

\* The pieces of an instruction text that carry a given stage header.
PiecesOf(text, stage) == {k \in DOMAIN text : text[k].stage = stage}

Present(text, stage) == PiecesOf(text, stage) # {}

\* The place of each stage in the order the design fixes.
StageRank ==
    [s \in {"PROMPT", "ROTATION", "CROP", "FILTER", "TRANSPARENCY", "WATERMARK",
            "RESIZE", "TEXT OVERLAY", "OUTPUT FORMAT"} |->
        CASE s = "PROMPT"        -> 0
          [] s = "ROTATION"      -> 1
          [] s = "CROP"          -> 2
          [] s = "FILTER"        -> 3
          [] s = "TRANSPARENCY"  -> 4
          [] s = "WATERMARK"     -> 5
          [] s = "RESIZE"        -> 6
          [] s = "TEXT OVERLAY"  -> 7
          [] s = "OUTPUT FORMAT" -> 8]

OptionalStages == {"ROTATION", "CROP", "FILTER", "WATERMARK", "RESIZE", "TEXT OVERLAY"}

\* A text that is empty or holds white space only.
OnlyWhiteSpace(s) == \A k \in DOMAIN s : s[k] \in WhiteSpace

\* C1: in every compiled instruction text the stages that are present appear
\* in the order rotation < crop < filters < transparency < watermark < resize
\* < text overlay < output encoding, whatever stages are enabled.
C1_StageOrder ==
    \A c \in sent :
        LET text == c.request.text IN
        \A j, k \in DOMAIN text :
            j < k => StageRank[text[j].stage] < StageRank[text[k].stage]

\* C1 witness: a text compiled with all eight stages present.
C1_Witness ==
    \E c \in sent :
        \A s \in OptionalStages \cup {"TRANSPARENCY", "OUTPUT FORMAT"} :
            Present(c.request.text, s)

\* Every enabled flag is false and the rotation is 0.
AllFlagsOff(s) ==
    /\ s.rotationAngle = 0
    /\ ~s.cropConfig.enabled
    /\ ~s.filterConfig.grayscale.enabled
    /\ ~s.watermarkConfig.enabled
    /\ ~s.resizeConfig.enabled
    /\ ~s.textOverlayConfig.enabled

\* C2 as stated: with every optional stage disabled and rotation = 0 the
\* compiled text holds the prompt header, the transparency handling and the
\* output encoding, and nothing else.
C2_OnlyUnconditionalStages ==
    \A c \in sent :
        AllFlagsOff(c.settings) =>
            StagesOf(c.request.text) = <<"PROMPT", "TRANSPARENCY", "OUTPUT FORMAT">>

\* C2 amended: with every enabled flag false, rotation = 0 and brightness and
\* contrast both at 100, the compiled text holds the prompt header, the
\* transparency handling and the output encoding, and nothing else.
C2_OnlyUnconditionalStagesAtIdentity ==
    \A c \in sent :
        ( /\ AllFlagsOff(c.settings)
          /\ c.settings.filterConfig.brightness = 100
          /\ c.settings.filterConfig.contrast = 100 ) =>
            StagesOf(c.request.text) = <<"PROMPT", "TRANSPARENCY", "OUTPUT FORMAT">>

\* C2 witness: a text was compiled from such a Settings value whose disabled
\* stages do not all hold their default parameters.
C2_Witness ==
    \E c \in sent :
        /\ AllFlagsOff(c.settings)
        /\ c.settings.filterConfig.brightness = 100
        /\ c.settings.filterConfig.contrast = 100
        /\ c.settings.filterConfig.grayscale.intensity = 100
        /\ c.settings # defaultSettings

\* C3: a watermark text or text-overlay content that is empty or only white
\* space leaves its stage out even when the stage is enabled; an enabled stage
\* whose text holds anything else is present, with the trimmed text.
C3_BlankTextDisablesStage ==
    \A c \in sent :
        LET s == c.settings
            text == c.request.text
        IN  /\ OnlyWhiteSpace(s.watermarkConfig.text) => ~Present(text, "WATERMARK")
            /\ OnlyWhiteSpace(s.textOverlayConfig.content) => ~Present(text, "TEXT OVERLAY")
            /\ (s.watermarkConfig.enabled /\ ~OnlyWhiteSpace(s.watermarkConfig.text))
                   => Present(text, "WATERMARK")
            /\ (s.textOverlayConfig.enabled /\ ~OnlyWhiteSpace(s.textOverlayConfig.content))
                   => Present(text, "TEXT OVERLAY")

\* C3 witness: compiled with the watermark enabled on a text of white space
\* and the text overlay enabled on a text that holds more than white space.
C3_Witness ==
    \E c \in sent :
        LET s == c.settings IN
        /\ s.watermarkConfig.enabled
        /\ s.watermarkConfig.text # <<>>
        /\ OnlyWhiteSpace(s.watermarkConfig.text)
        /\ s.textOverlayConfig.enabled
        /\ ~OnlyWhiteSpace(s.textOverlayConfig.content)

\* The kinds of the sub-instructions of the filter stage of a text, in order
\* (none when the text has no filter stage).
FilterKinds(text) ==
    IF Present(text, "FILTER")
    THEN LET f == text[CHOOSE k \in DOMAIN text : text[k].stage = "FILTER"].filters
         IN  [k \in DOMAIN f |-> f[k].kind]
    ELSE <<>>

\* C4 as stated: grayscale is skipped when disabled or at intensity 0,
\* brightness when 100, contrast when 100; what is left appears in the order
\* grayscale, brightness, contrast, and the stage is absent when nothing is left.
C4_FilterSubInstructions ==
    \A c \in sent :
        LET f == c.settings.filterConfig
            text == c.request.text
            expected ==
                (IF f.grayscale.enabled /\ f.grayscale.intensity # 0
                 THEN <<"grayscale">> ELSE <<>>)
                \o (IF f.brightness # 100 THEN <<"brightness">> ELSE <<>>)
                \o (IF f.contrast # 100 THEN <<"contrast">> ELSE <<>>)
        IN  /\ FilterKinds(text) = expected
            /\ Present(text, "FILTER") <=> expected # <<>>

\* C5: the transparency handling is written exactly once, in the variant
\* transparency.method names; the fill variant carries the fill colour and the
\* other two carry no colour.
C5_TransparencyOnce ==
    \A c \in sent :
        LET tc == c.settings.transparencyConfig
            text == c.request.text
        IN  /\ Cardinality(PiecesOf(text, "TRANSPARENCY")) = 1
            /\ \A k \in PiecesOf(text, "TRANSPARENCY") :
                  /\ text[k].variant \in {"fill", "dither", "preserve"}
                  /\ text[k].variant = tc.method
                  /\ text[k].strs = IF tc.method = "fill" THEN <<tc.fillColor>> ELSE <<>>

\* C5 witness: compiled with the method 'dither', which neither base value of
\* the inputs holds.
C5_Witness ==
    \E c \in sent :
        /\ c.settings.transparencyConfig.method = "dither"
        /\ Present(c.request.text, "TRANSPARENCY")

\* C6: with resize enabled the text holds exactly one resize stage, whose mode
\* maintainAspectRatio alone selects (false: exact dimensions, with the target
\* width and height; true: fit within the bounding box); with resize disabled
\* it holds none.
C6_ResizeMode ==
    \A c \in sent :
        LET rc == c.settings.resizeConfig
            text == c.request.text
        IN  /\ Cardinality(PiecesOf(text, "RESIZE")) = IF rc.enabled THEN 1 ELSE 0
            /\ \A k \in PiecesOf(text, "RESIZE") :
                  /\ text[k].variant =
                        IF rc.maintainAspectRatio THEN "fit within bounding box"
                        ELSE "exact dimensions"
                  /\ text[k].nums = <<rc.width, rc.height>>

\* C6 witness: compiled with resize enabled, maintainAspectRatio false,
\* width 100 and height 50.
C6_Witness ==
    \E c \in sent :
        LET rc == c.settings.resizeConfig IN
        rc.enabled /\ ~rc.maintainAspectRatio /\ rc.width = 100 /\ rc.height = 50

\* C7: the output encoding is written exactly once and is the last piece of
\* the text; it carries the quality for JPEG and WEBP only, and for PNG the
\* text is the same whatever the quality setting.
C7_OutputEncodingLast ==
    \A c \in sent :
        LET s == c.settings
            text == c.request.text
            lossy == s.outputFormat \in {"image/jpeg", "image/webp"}
        IN  /\ PiecesOf(text, "OUTPUT FORMAT") = {Len(text)}
            /\ text[Len(text)].strs = <<s.outputFormat>>
            /\ text[Len(text)].nums = IF lossy THEN <<s.outputQuality>> ELSE <<>>
            /\ ~lossy =>
                 \A q \in Qualities :
                    Call(c.request.inlineData.data,
                         c.request.inlineData.mimeType,
                         [s EXCEPT !.outputQuality = q], 0).request = c.request

\* C7 witness: compiled for PNG with a quality that is not the default.
C7_Witness ==
    \E c \in sent :
        /\ c.settings.outputFormat = "image/png"
        /\ c.settings.outputQuality # defaultSettings.outputQuality

\* C8: the user prompt is the first piece of every compiled text, and no other
\* piece is a prompt header, the empty prompt included.
C8_PromptFirst ==
    \A c \in sent :
        LET text == c.request.text IN
        /\ PiecesOf(text, "PROMPT") = {1}
        /\ text[1].text = c.settings.userPrompt

\* C8 witness: compiled with the empty prompt.
C8_Witness ==
    \E c \in sent : c.settings.userPrompt = <<>>

\* C9: when the text overlay is present nothing but the output encoding
\* follows it: no crop, filter, watermark or resize stage comes after it.
C9_TextOverlayLastMutation ==
    \A c \in sent :
        LET text == c.request.text IN
        \A j, k \in DOMAIN text :
            (text[j].stage = "TEXT OVERLAY" /\ j < k) => text[k].stage = "OUTPUT FORMAT"

\* C9 witness: compiled with the text overlay present together with crop,
\* filter, watermark and resize.
C9_Witness ==
    \E c \in sent :
        \A s \in {"TEXT OVERLAY", "CROP", "FILTER", "WATERMARK", "RESIZE"} :
            Present(c.request.text, s)


ResultOf(img) ==
    IF "editedUrl" \in DOMAIN img THEN img.editedUrl
    ELSE IF "compressedUrl" \in DOMAIN img THEN img.compressedUrl
    ELSE img.upscaledUrl

Processing(img) == img.isLoading
Succeeded(img) == ~img.isLoading /\ ResultOf(img) # null
Failed(img) == ~img.isLoading /\ img.error # null
Idle(img) == ~img.isLoading /\ ResultOf(img) = null /\ img.error = null

\* The states an item is in.
StatesOf(img) ==
    {s \in {"Idle", "Processing", "Succeeded", "Failed"} :
        \/ s = "Idle" /\ Idle(img)
        \/ s = "Processing" /\ Processing(img)
        \/ s = "Succeeded" /\ Succeeded(img)
        \/ s = "Failed" /\ Failed(img)}

\* The number of items of the batch in state s.
CountIn(s) == Cardinality({k \in DOMAIN images : s \in StatesOf(images[k])})

\* C11: every item of the Editor batch is in exactly one of the four
\* states, so the four counts add up to the number of items, and when no
\* run is active (isProcessing is false) no item is Processing.
C11_BatchInvariant ==
    /\ \A k \in DOMAIN images : Cardinality(StatesOf(images[k])) = 1
    /\ CountIn("Idle") + CountIn("Processing") + CountIn("Succeeded") + CountIn("Failed")
          = Len(images)
    /\ ~isProcessing => CountIn("Processing") = 0

\* C11 witness: a run has completed with one item Succeeded and one Failed.
C11_Witness ==
    /\ ~isProcessing
    /\ CountIn("Succeeded") = 1
    /\ CountIn("Failed") = 1


\* C12: while a run is active the published progress.current never goes
\* down and stays below progress.total, and the step that completes the run
\* publishes current = total: current reaches total once, at completion.
C12_ProgressMonotone ==
    /\ [](isProcessing => progress.current < progress.total)
    /\ [][(isProcessing /\ activeTool' = activeTool) =>
             /\ progress'.current >= progress.current
             /\ progress'.total = progress.total
             /\ ~isProcessing' => progress'.current = progress'.total]_vars

\* C12 witness: an Upscaler run over two images has completed at 2 of 2.
C12_Witness ==
    /\ activeTool = "upscaler"
    /\ ~isProcessing
    /\ progress = [current |-> 2, total |-> 2]


\* C13: in every state of the Editor, the Compressor and the Upscaler
\* 0 <= progress.current <= progress.total, and from one state of an active
\* run to the next progress.current does not go down.
C13_ProgressInRange ==
    /\ [](0 <= progress.current /\ progress.current <= progress.total)
    /\ [][(isProcessing /\ isProcessing' /\ activeTool' = activeTool) =>
             progress'.current >= progress.current]_vars

\* C13 witness: a Compressor run over two images is at 1 of 2.
C13_Witness ==
    /\ activeTool = "compressor"
    /\ isProcessing
    /\ progress = [current |-> 1, total |-> 2]


\* A step that asks the mounted view for a run: the Editor's "Generate"
\* button, the Compressor's button or its effect, the Upscaler's button.
RunRequested ==
    \/ activeTool = "editor" /\ handleGenerateEdits
    \/ activeTool = "compressor" /\ (Compress \/ AutoCompress)
    \/ activeTool = "upscaler" /\ handleUpscale

\* No item of the batch would be processed: none is selected in the Editor,
\* there is none in the Compressor and the Upscaler.
NothingSelected ==
    IF activeTool = "editor"
    THEN \A k \in DOMAIN images : images[k].id \notin selectedImageIds
    ELSE images = <<>>

\* C14: at most one run is active at any time; a run starts only when none
\* is active and some item is selected; and a request made when nothing is
\* selected or a run is active changes no item, no progress, no active flag
\* and starts no run.
C14_AtMostOneRun ==
    /\ [](Len(runs) <= 1)
    /\ [][Len(runs') > Len(runs) =>
             ~isProcessing /\ runs = <<>> /\ ~NothingSelected]_vars
    /\ [][(RunRequested /\ (isProcessing \/ NothingSelected)) =>
             UNCHANGED <<images, progress, isProcessing, runs, sent>>]_vars

\* C14 witness: the Editor's "Generate" button is enabled on a Selection none
\* of whose ids is in the batch, so a click is rejected by the handler.
C14_Witness ==
    /\ activeTool = "editor"
    /\ PanelShown
    /\ ~isProcessing
    /\ selectedImageIds # {}
    /\ NothingSelected


\* C15: the step that accepts an Editor run leaves every selected item
\* Processing with no result and no error, and progress at 0 of the number
\* of selected ids, in the state in which the first call is awaited.
C15_RunAccepted ==
    [][Len(runs') > Len(runs) =>
          /\ \A k \in DOMAIN images :
                images[k].id \in selectedImageIds =>
                    /\ Processing(images'[k])
                    /\ images'[k].editedUrl = null
                    /\ images'[k].error = null
          /\ progress' = [current |-> 0, total |-> Cardinality(selectedImageIds)]]_vars

\* C15 with the total the handler sets: the number of items of the batch
\* that are selected.
C15_RunAcceptedOverBatch ==
    [][Len(runs') > Len(runs) =>
          /\ \A k \in DOMAIN images :
                images[k].id \in selectedImageIds =>
                    /\ Processing(images'[k])
                    /\ images'[k].editedUrl = null
                    /\ images'[k].error = null
          /\ progress' = [current |-> 0,
                          total |-> Cardinality(Ids(images) \cap selectedImageIds)]]_vars


\* The ids of the items the active Editor runs of rs process.
RunIds(rs) == UNION {Ids(rs[r].imagesToProcess) : r \in DOMAIN rs}

\* The image of imgs with this id is in state s.
InState(imgs, id, s) == \E k \in DOMAIN imgs : imgs[k].id = id /\ s \in StatesOf(imgs[k])

\* C16: from the step that accepts an Editor run to the step that completes
\* it, every item of the batch that the run does not process is left as it
\* is; and when the run completes with none of its items Failed, each of its
\* items is Succeeded in the batch and the archive holds exactly these and
\* the items outside the run that were Succeeded before.
C16_RunDrivesSelection ==
    /\ [][(runs # <<>> \/ runs' # <<>>) =>
             \A k \in DOMAIN images :
                images[k].id \notin RunIds(runs) \cup RunIds(runs') =>
                    \E j \in DOMAIN images' : images'[j] = images[k]]_vars
    /\ [][(/\ runs # <<>>
           /\ runs' = <<>>
           /\ \A id \in RunIds(runs) : ~InState(images', id, "Failed")) =>
             /\ \A id \in RunIds(runs) : InState(images', id, "Succeeded")
             /\ Ids(editedImages(images')) =
                   RunIds(runs) \cup
                   {id \in Ids(images) \ RunIds(runs) : InState(images, id, "Succeeded")}]_vars


\* An item that carries the outcome of a failed call and nothing else: not
\* loading, an error message that is not empty, no result.
FailedAlone(img) ==
    /\ ~img.isLoading
    /\ img.error # null
    /\ img.error # <<"">>
    /\ ResultOf(img) = null

\* An item that carries the outcome of a call that succeeded and nothing else.
SucceededAlone(img) ==
    /\ ~img.isLoading
    /\ ResultOf(img) # null
    /\ img.error = null

\* The outcomes a call may have: <<ok, data, message>>.
Outcomes ==
    {<<TRUE, data, "">> : data \in ImageData}
    \cup {<<FALSE, 0, message>> : message \in ErrorMessages \cup U_ErrorMessages}

\* C17: in the Editor, the step in which the call for an item returns leaves
\* that item Succeeded with no error if the call succeeded and Failed with a
\* message and no result if it failed, leaves every other item as it is,
\* and goes on to the next item of the run or, after the last one, ends the
\* run with progress at total of total.  In the Upscaler the step in which
\* the last call returns ends the run with progress at total of total and
\* with every item Succeeded with no error or Failed with a message and no
\* result, the item of that call according to its outcome.
C17_FailuresIsolated ==
    /\ [][\A r \in DOMAIN runs, o \in Outcomes :
            (activeTool = "editor" /\ TransformDone(r, o[1], o[2], o[3])) =>
               LET n == Len(runs[r].imagesToProcess)
                   id == runs[r].imagesToProcess[runs[r].i + 1].id
               IN  /\ \E k \in DOMAIN images' :
                         /\ images'[k].id = id
                         /\ IF o[1] THEN SucceededAlone(images'[k])
                            ELSE FailedAlone(images'[k])
                   /\ \A k \in DOMAIN images :
                         images[k].id # id => images'[k] = images[k]
                   /\ IF runs[r].i + 1 < n
                      THEN isProcessing' /\ runs'[r].i = runs[r].i + 1
                      ELSE ~isProcessing' /\ progress' = [current |-> n, total |-> n]]_vars
    /\ [][\A r \in DOMAIN runs, k \in 1..MaxImages, o \in Outcomes :
            (activeTool = "upscaler" /\ ProcessImageDone(r, k, o[1], o[2], o[3])) =>
               LET n == Len(runs[r].images) IN
               IF \A j \in DOMAIN runs[r].images : j # k => runs[r].updatedImages[j] # null
               THEN /\ ~isProcessing'
                    /\ progress' = [current |-> n, total |-> n]
                    /\ Len(images') = n
                    /\ \A j \in DOMAIN images' :
                          SucceededAlone(images'[j]) \/ FailedAlone(images'[j])
                    /\ IF o[1] THEN SucceededAlone(images'[k])
                       ELSE FailedAlone(images'[k])
               ELSE isProcessing' /\ Len(runs') = Len(runs)]_vars


\* C18: in the Editor, the step that accepts a run takes every selected
\* Failed item to Processing with its error cleared, and the step in which
\* the call for an item that was Failed when the run was accepted succeeds
\* leaves that item Succeeded, with no error and with the image the call
\* returned as its result.
C18_RerunFailedItem ==
    /\ [][Len(runs') > Len(runs) =>
             \A k \in DOMAIN images :
                (Failed(images[k]) /\ images[k].id \in selectedImageIds) =>
                    /\ StatesOf(images'[k]) = {"Processing"}
                    /\ images'[k].error = null]_vars
    /\ [][\A r \in DOMAIN runs, data \in ImageData :
            (/\ TransformDone(r, TRUE, data, "")
             /\ Failed(runs[r].imagesToProcess[runs[r].i + 1])) =>
               LET id == runs[r].imagesToProcess[runs[r].i + 1].id
                   newImageUrl == <<<<"data:", runs[r].settings.outputFormat, ";base64">>, data>>
               IN  \E k \in DOMAIN images' :
                      /\ images'[k].id = id
                      /\ StatesOf(images'[k]) = {"Succeeded"}
                      /\ images'[k].error = null
                      /\ images'[k].editedUrl = <<newImageUrl>>]_vars


\* C19: in the Upscaler and the Compressor, the step that accepts a run takes
\* every item that is Succeeded or Failed to Processing with no result and
\* no error, and the step that completes the run leaves every item that was
\* Succeeded or Failed when the run was accepted with the outcome of this
\* run only: a result and no error, or an error and no result.
C19_Resubmission ==
    [][(activeTool \in {"upscaler", "compressor"} /\ activeTool' = activeTool) =>
          /\ Len(runs') > Len(runs) =>
                \A k \in DOMAIN images :
                   (Succeeded(images[k]) \/ Failed(images[k])) =>
                      /\ StatesOf(images'[k]) = {"Processing"}
                      /\ ResultOf(images'[k]) = null
                      /\ images'[k].error = null
          /\ Len(runs') < Len(runs) =>
                \A r \in DOMAIN runs : \A k \in DOMAIN runs[r].images :
                   (Succeeded(runs[r].images[k]) \/ Failed(runs[r].images[k])) =>
                      \E j \in DOMAIN images' :
                         /\ images'[j].id = runs[r].images[k].id
                         /\ SucceededAlone(images'[j]) \/ FailedAlone(images'[j])]_vars


\* The transitions of the Work Item state machine.
Transitions ==
    {<<"Idle", "Processing">>, <<"Processing", "Succeeded">>, <<"Processing", "Failed">>,
     <<"Succeeded", "Processing">>, <<"Failed", "Processing">>}

\* C20: in every step an item that stays in the batch keeps its state or
\* takes one transition of the state machine Idle -> Processing ->
\* Succeeded | Failed -> Processing, and an item that comes into the batch
\* is Idle.
C20_StateMachine ==
    [][/\ \A k \in DOMAIN images, j \in DOMAIN images' :
             images'[j].id = images[k].id =>
                \/ StatesOf(images'[j]) = StatesOf(images[k])
                \/ \E t \in Transitions :
                      /\ StatesOf(images[k]) = {t[1]}
                      /\ StatesOf(images'[j]) = {t[2]}
       /\ \A j \in DOMAIN images' :
             images'[j].id \notin Ids(images) => StatesOf(images'[j]) = {"Idle"}]_vars


\* C21: a step of a selection operation (the checkbox of one image, or
\* "Select All" / "Deselect All") changes the selection alone: the list of
\* images with every item's state, result and error, the active flag and
\* the progress stay as they were.
C21_SelectionOnly ==
    [][(\/ \E id \in Ids(images) : handleToggleSelection(id)
        \/ handleToggleSelectAll)
       => /\ images' = images
          /\ isProcessing' = isProcessing
          /\ progress' = progress
          /\ runs' = runs]_vars

\* A run is active, one of its items has its outcome and another is still
\* Processing, and the selection the run started from has been emptied.
C21_Witness ==
    /\ isProcessing
    /\ selectedImageIds = {}
    /\ \E k \in DOMAIN images : Succeeded(images[k]) \/ Failed(images[k])
    /\ \E k \in DOMAIN images : Processing(images[k])


\* The image the loop of invocation r is waiting on.
CurrentImage(r) == runs[r].imagesToProcess[runs[r].i + 1]

\* A step of the remove button takes the image out of the batch and its id
\* out of the selection, and leaves every other image as it was.
RemoveTakesItemOut ==
    \A id \in Ids(images) :
        handleRemoveImage(id) =>
            /\ images' = SelectSeq(images, LAMBDA img : img.id # id)
            /\ selectedImageIds' = selectedImageIds \ {id}
            /\ isProcessing' = isProcessing /\ progress' = progress /\ runs' = runs

\* A result that arrives for an id the batch no longer holds is dropped: no
\* image is made or changed, the progress is counted, and the loop goes on
\* to its next image or ends the run.
AbsentResultDropped ==
    \A r \in DOMAIN runs, ok \in BOOLEAN, data \in ImageData \cup {0}, message \in ErrorMessages :
        (TransformDone(r, ok, data, message) /\ CurrentImage(r).id \notin Ids(images)) =>
            /\ images' = images
            /\ progress'.current = runs[r].i + 1
            /\ \/ Len(runs') = Len(runs) /\ runs'[r].i = runs[r].i + 1 /\ isProcessing' = isProcessing
               \/ Len(runs') = Len(runs) - 1 /\ ~isProcessing'

FreshBatch(files) ==
    /\ Len(images') = Len(files)
    /\ \A k \in DOMAIN files :
          /\ StatesOf(images'[k]) = {"Idle"}
          /\ IF "originalFile" \in DOMAIN images'[k]
             THEN images'[k].originalFile = files[k]
             ELSE /\ images'[k].originalFileName = files[k].name
                  /\ images'[k].originalDataUrl = fileToDataUrl(files[k])
    /\ selectedImageIds' = {}
    /\ progress' = [current |-> 0, total |-> 0]
    /\ ~isProcessing'

\* The items of the batch are items of one load.
OneLoad == \A k, j \in DOMAIN images : images[k].id[1] = images[j].id[1]

\* C23: a load of files, when it sets the batch, leaves one Idle item for
\* each file in the order of the files, with the selection, the progress
\* and the active flag cleared, in the Editor (where the files are read
\* asynchronously and two loads may overlap) and in the Compressor; and the
\* batch never holds items of two loads.
C23_AddImages ==
    /\ [][/\ \A load \in pending :
                (activeTool = "editor" /\ ImageSelectDone(load)) => FreshBatch(load.files)
          /\ \A n \in 1..MaxImages :
                (activeTool = "compressor" /\ C_handleImageSelect(n)) => FreshBatch(Files(n))]_vars
    /\ []OneLoad


\* C24: the Compressor's effect starts a run only when no run is active and
\* no item of the batch has been started since the batch was loaded; an
\* item that has been started is never Idle again while the batch stays,
\* whatever its outcome; and when a run has completed the effect is not due.
\* So the effect starts at most one run for each load.
C24_AutoRunOnce ==
    /\ [][(activeTool = "compressor" /\ AutoCompress) =>
             /\ ~isProcessing /\ runs = <<>>
             /\ \A k \in DOMAIN images : StatesOf(images[k]) = {"Idle"}
             /\ isProcessing' /\ Len(runs') = 1]_vars
    /\ [][activeTool = "compressor" =>
             \A k \in DOMAIN images, j \in DOMAIN images' :
                 (images'[j].id = images[k].id /\ ~Idle(images[k])) => ~Idle(images'[j])]_vars
    /\ [](activeTool = "compressor" /\ (\E k \in DOMAIN images : ~Idle(images[k])) => ~EffectDue)

\* "Auto-start" is on and a run over two images has completed, the first
\* image Failed and the second Succeeded.
C24_Witness ==
    /\ activeTool = "compressor"
    /\ autoCompress
    /\ ~isProcessing
    /\ Len(images) = 2
    /\ Failed(images[1])
    /\ Succeeded(images[2])
    /\ progress = [current |-> 2, total |-> 2]


\* The numeric fields of a Settings value are in their documented ranges.
InRange(s) ==
    /\ s.rotationAngle \in -180..180
    /\ \A field \in CropFields : s.cropConfig[field] \in 0..100
    /\ s.filterConfig.grayscale.intensity \in 0..100
    /\ s.outputQuality \in 1..100

\* C25: after any edits through the inputs of the settings panel the
\* numeric fields of the settings are in their ranges (rotationAngle in
\* -180..180, the crop fields and the grayscale intensity in 0..100,
\* outputQuality in 1..100), and so are the settings every run hands to
\* editImageWithGemini.
C25_SettingsInRange ==
    /\ InRange(settings)
    /\ \A r \in DOMAIN runs : InRange(runs[r].settings)


\* C26: whatever the store holds when the Editor is mounted (a read that
\* throws, no item, a text that does not parse, a value that is not a
\* Settings value), the Editor starts with the default settings or with a
\* stored value that has the fields of a Settings value.
C26_LoadFallsBack ==
    (loads = 0 /\ changed = 0) =>
        \/ settings = defaultSettings
        \/ MatchesSchema(settings)


\* C27: what handleDownloadAll collects is a function of the batch: the
\* Succeeded items, each once and in the order of the batch, and no Idle,
\* Processing or Failed item; it is the empty sequence when no item is
\* Succeeded.
C27_ExportCollector ==
    /\ editedImages(images) = SelectSeq(images, Succeeded)
    /\ Len(editedImages(images)) = CountIn("Succeeded")
    /\ \A k \in DOMAIN editedImages(images) :
          StatesOf(editedImages(images)[k]) = {"Succeeded"}
    /\ CountIn("Succeeded") = 0 => editedImages(images) = <<>>

\* The first image of the batch is Failed and the second Succeeded: the
\* second alone is collected.
C27_Witness ==
    /\ Len(images) = 2
    /\ Failed(images[1])
    /\ Succeeded(images[2])
    /\ editedImages(images) = <<images[2]>>


\* What the sequential runner leaves of an item for one outcome of its
\* call: the loop clears result and error when the run starts, then sets
\* the result on success and the error on failure.
SequentialOutcome(img, ok, data, message) ==
    [img EXCEPT !.upscaledUrl = IF ok THEN <<<<<<"data:", "image/png", ";base64">>, data>>>>
                                ELSE null,
                !.error = IF ok THEN null ELSE <<ErrorText(message)>>,
                !.isLoading = FALSE]

\* C28: whatever the outcomes of the calls and the order they settle in,
\* each item the Upscaler's run produces is the item the sequential runner
\* produces for the same outcome, and when the last call has settled the
\* batch is made of these items, the progress is n of n and the run is over.
C28_ConcurrentAsSequential ==
    [][activeTool = "upscaler" =>
        \A r \in DOMAIN runs, k \in 1..MaxImages, ok \in BOOLEAN, data \in ImageData, message \in U_ErrorMessages :
            ProcessImageDone(r, k, ok, data, message) =>
                LET expected == SequentialOutcome(runs[r].images[k], ok, data, message)
                    n == Len(runs[r].images)
                IN  IF Len(runs') = Len(runs)
                    THEN runs'[r].updatedImages[k] = <<expected>>
                    ELSE /\ images'[k] = expected
                         /\ \A j \in DOMAIN images' :
                               j # k => <<images'[j]>> = runs[r].updatedImages[j]
                         /\ progress' = [current |-> n, total |-> n]
                         /\ ~isProcessing']_vars


\* The ids of the items invocation r of the run handler of the mounted view
\* works on.
ItemsOfRun(r) ==
    IF activeTool = "editor" THEN Ids(runs[r].imagesToProcess) ELSE Ids(runs[r].images)

\* C29: while a run of the Editor or of the Upscaler is under way and
\* progress.current is k, exactly k items of the run are Succeeded or Failed
\* in the batch and the other total - k items are Processing.
C29_ProgressCountsTerminal ==
    activeTool \in {"editor", "upscaler"} =>
        \A r \in DOMAIN runs :
            /\ Cardinality({id \in ItemsOfRun(r) :
                              \/ InState(images, id, "Succeeded")
                              \/ InState(images, id, "Failed")}) = progress.current
            /\ Cardinality({id \in ItemsOfRun(r) : InState(images, id, "Processing")})
                  = progress.total - progress.current


NextIntake ==
    \/ \E tool \in Tools : setActiveTool(tool)
    \/ activeTool = "editor" /\ (\E files \in Uploads : ImageSelectFiles(files)) /\ UNCHANGED app
    \/ activeTool = "editor" /\ (\E load \in pending : ImageSelectDone(load)) /\ UNCHANGED app
    \/ activeTool = "editor" /\ (\E id \in Ids(images) : handleToggleSelection(id)) /\ UNCHANGED app
    \/ activeTool = "editor" /\ RunStep /\ UNCHANGED <<app, sent>>
    \/ activeTool = "upscaler" /\ \E files \in Uploads : U_handleImageSelectFiles(files)
    \/ activeTool = "upscaler" /\ handleUpscale
    \/ activeTool = "upscaler" /\ \E r \in DOMAIN runs, k \in 1..MaxImages, ok \in BOOLEAN, data \in ImageData, message \in U_ErrorMessages : ProcessImageDone(r, k, ok, data, message)
    \/ activeTool = "compressor" /\ ~EffectDue /\ \E files \in Uploads : C_handleImageSelectFiles(files)
    \/ activeTool = "compressor" /\ ~EffectDue /\ Compress
    \/ activeTool = "compressor" /\ ~EffectDue /\ \E r \in DOMAIN runs, ok \in BOOLEAN, data \in ImageData, message \in ErrorMessages : CompressDone(r, ok, data, message)

SpecIntake == InitRunners /\ [][NextIntake]_vars

\* The indexes of the files of a list that can be read.
Readable(files) == {k \in DOMAIN files : files[k].readable}

\* C31: no Failed item of the Compressor or of the Upscaler has a source file
\* that cannot be read, and a load that completes in any of the three views
\* leaves in the batch one item for each readable file of the load and none
\* for the others.
C31_UnreadableRejected ==
    /\ [](activeTool # "editor" =>
            \A k \in DOMAIN images : Failed(images[k]) => images[k].originalFile.readable)
    /\ [][\A load \in pending :
            ImageSelectDone(load) =>
                Ids(images') = {NewImage(load.no, k, load.files[k]).id : k \in Readable(load.files)}]_vars
    /\ [][\A files \in Uploads :
            activeTool = "upscaler" /\ U_handleImageSelectFiles(files) =>
                Ids(images') = {U_NewImage(loads + 1, k, files[k]).id : k \in Readable(files)}]_vars
    /\ [][\A files \in Uploads :
            activeTool = "compressor" /\ C_handleImageSelectFiles(files) =>
                Ids(images') = {C_NewImage(loads + 1, k, files[k]).id : k \in Readable(files)}]_vars

\* C32: while a run of the Editor is active the Settings do not change and
\* are the ones its handler was called with; every call a run makes is
\* compiled from them; and a call that was made stays as it was made,
\* whatever is changed later.
C32_RunSettingsFixed ==
    /\ [][runs # <<>> => settings' = settings]_vars
    /\ [](\A r \in DOMAIN runs : runs[r].settings = settings)
    /\ [][\A c \in sent' \ sent :
            \E r \in DOMAIN runs' :
                c = CallFor(runs'[r].imagesToProcess[runs'[r].i + 1], settings', runs'[r].i)]_vars
    /\ [][sent \subseteq sent']_vars

\* C32 witness: a run made the calls for two items with the same Settings,
\* and the Settings were changed after it.
C32_Witness ==
    /\ runs = <<>>
    /\ \E c1, c2 \in sent :
        /\ c1.position # c2.position
        /\ c1.settings = c2.settings
        /\ c1.settings # settings

\* C33: in every reachable state of the three runners no item of the batch
\* holds a result image together with an error message.
C33_ResultOrError ==
    \A k \in DOMAIN images : ~(ResultOf(images[k]) # null /\ images[k].error # null)

\* C34: in every reachable state of the Editor every selected id is the id
\* of an item of the batch, and "all selected" holds exactly when the batch
\* is not empty and every item of it is selected.
C34_SelectionInBatch ==
    /\ selectedImageIds \subseteq Ids(images)
    /\ allSelected <=> (Len(images) > 0 /\ Ids(images) \subseteq selectedImageIds)

\* The items invocation r of the run handler of the mounted view works on, in
\* the order of its loop.
SeqOfRun(r) == IF activeTool = "editor" THEN runs[r].imagesToProcess ELSE runs[r].images

\* The index in the batch of the item with this id, 0 when there is none.
IndexOf(imgs, id) ==
    IF id \in Ids(imgs) THEN CHOOSE k \in DOMAIN imgs : imgs[k].id = id ELSE 0

C36_RunFixedAtAcceptance ==
    /\ [][runs' # runs => selectedImageIds' = selectedImageIds]_vars
    /\ [][(runs # <<>> /\ runs' # <<>>) =>
             /\ runs'[1].imagesToProcess = runs[1].imagesToProcess
             /\ runs'[1].settings = runs[1].settings
             /\ progress'.total = progress.total]_vars
    /\ [][(runs # <<>> /\ selectedImageIds' # selectedImageIds) =>
             UNCHANGED <<images, progress, runs, isProcessing>>]_vars
    /\ [][runs # <<>> =>
             \A id \in Ids(images') :
                 InState(images', id, "Processing") => InState(images, id, "Processing")]_vars

\* C36 witness: while a run is active an item that the run does not work on
\* is selected, and is not Processing.
C36_Witness ==
    /\ Len(runs) = 1
    /\ \E k \in DOMAIN images :
        /\ images[k].id \in selectedImageIds
        /\ images[k].id \notin Ids(runs[1].imagesToProcess)
        /\ Idle(images[k])

(***************************************************************************)
(* EditorView: the names of the files handleDownloadAll puts into the      *)
(* archive.  A file name is the sequence of its characters.                *)
(***************************************************************************)
\* The characters of the three values of Settings.outputFormat.
FormatChars(outputFormat) ==
    CASE outputFormat = "image/png" -> <<"i", "m", "a", "g", "e", "/", "p", "n", "g">>
      [] outputFormat = "image/jpeg" -> <<"i", "m", "a", "g", "e", "/", "j", "p", "e", "g">>
      [] outputFormat = "image/webp" -> <<"i", "m", "a", "g", "e", "/", "w", "e", "b", "p">>

\* str.split(separator): the pieces of str between the separators.
RECURSIVE split(_, _)
split(str, separator) ==
    LET at == {k \in DOMAIN str : str[k] = separator} IN
    IF at = {} THEN <<str>>
    ELSE LET k == CHOOSE x \in at : \A y \in at : x <= y
         IN  <<SubSeq(str, 1, k - 1)>> \o split(SubSeq(str, k + 1, Len(str)), separator)

\* str.replace(pattern, replacement): the first occurrence of pattern, if
\* there is one, gives way to replacement.
replace(str, pattern, replacement) ==
    LET at == {k \in 1..(Len(str) - Len(pattern) + 1) : SubSeq(str, k, k + Len(pattern) - 1) = pattern} IN
    IF at = {} THEN str
    ELSE LET k == CHOOSE x \in at : \A y \in at : x <= y
         IN  SubSeq(str, 1, k - 1) \o replacement \o SubSeq(str, k + Len(pattern), Len(str))

\* image.originalFileName.split('.')[0] || 'image'
originalName(image) ==
    IF split(image.originalFileName, ".")[1] # <<>>
    THEN split(image.originalFileName, ".")[1]
    ELSE <<"i", "m", "a", "g", "e">>

\* settings.outputFormat.split('/')[1].replace('jpeg', 'jpg')
extension(s) == replace(split(FormatChars(s.outputFormat), "/")[2], <<"j", "p", "e", "g">>, <<"j", "p", "g">>)

\* `${originalName}_edited.${extension}`
filename(image, s) == originalName(image) \o <<"_edited.">> \o extension(s)

\* The entries of the archive when handleDownloadAll has added the file of
\* every edited image: one entry for each name.
ArchiveEntries == {filename(editedImages(images)[k], settings) : k \in DOMAIN editedImages(images)}

\* The names of the files the user uploads: with and without a dot, with
\* two dots, with nothing before the dot, and two with the same first piece.
UploadNames ==
    {<<"a", ".", "p", "n", "g">>, <<"a", ".", "b", ".", "j", "p", "g">>, <<".", "p", "n", "g">>, <<"b">>}

\* The lists of one or two files of these names.
NamedUploads ==
    {<<[name |-> n1, type |-> "image/png", data |-> 1, readable |-> TRUE]>> : n1 \in UploadNames}
    \cup {<<[name |-> p[1], type |-> "image/png", data |-> 1, readable |-> TRUE],
            [name |-> p[2], type |-> "image/png", data |-> 2, readable |-> TRUE]>> :
              p \in {q \in UploadNames \X UploadNames : q[1] # q[2]}}

\* The Editor with the settings that were stored holding any of the three
\* output formats.
InitExport ==
    /\ settings \in {[defaultSettings EXCEPT !.outputFormat = v] : v \in Formats}
    /\ Persisted
    /\ InitBatch
    /\ InitRun
    /\ InitApp("editor")
    /\ sent = {}
    /\ changed = 0

NextExport ==
    \/ StartOver /\ UNCHANGED app
    \/ (\E files \in NamedUploads : ImageSelectFiles(files)) /\ UNCHANGED app
    \/ (\E load \in pending : ImageSelectDone(load)) /\ UNCHANGED app
    \/ handleToggleSelectAll /\ UNCHANGED app
    \/ RunStep /\ UNCHANGED <<app, sent>>

SpecExport == InitExport /\ [][NextExport]_vars

\* C37: the name of the archive entry of every edited item is the part of
\* its source name before the first dot (the whole name when it has no dot),
\* or "image" when that part is empty, then "_edited.", then the subtype of
\* the output format with "jpg" for "jpeg"; the entries are as many as the
\* Succeeded items; and the subtype is that of the format the result of the
\* item carries.
C37_ExportFilenames ==
    LET Stem(name) ==
            LET dots == {k \in DOMAIN name : name[k] = "."}
            IN  IF dots = {} THEN name
                ELSE SubSeq(name, 1, (CHOOSE x \in dots : \A y \in dots : x <= y) - 1)
        Subtype(format) ==
            CASE format = "image/png" -> <<"p", "n", "g">>
              [] format = "image/jpeg" -> <<"j", "p", "g">>
              [] format = "image/webp" -> <<"w", "e", "b", "p">>
    IN  /\ \A k \in DOMAIN editedImages(images) :
            LET image == editedImages(images)[k] IN
            /\ filename(image, settings) =
                  (IF Stem(image.originalFileName) = <<>> THEN <<"i", "m", "a", "g", "e">>
                   ELSE Stem(image.originalFileName))
                  \o <<"_edited.">> \o Subtype(settings.outputFormat)
            /\ extension(settings) = Subtype(image.editedUrl[1][1][2])
        /\ Cardinality(ArchiveEntries) = CountIn("Succeeded")

\* C38: toggling an id of the batch twice gives back the Selection; the
\* select-all control makes the Selection the ids of the batch when some
\* item of the batch is not selected and empties it when every item is
\* selected; and applied twice to the empty Selection or to the Selection of
\* every item it gives it back.
C38_ToggleTwice ==
    /\ [](\A id \in Ids(images) :
            toggled(toggled(selectedImageIds, id), id) = selectedImageIds)
    /\ [][\A id \in Ids(images) :
            handleToggleSelection(id) => toggled(selectedImageIds', id) = selectedImageIds]_vars
    /\ [][handleToggleSelectAll =>
            selectedImageIds' = IF Ids(images) \subseteq selectedImageIds THEN {} ELSE Ids(images)]_vars
    /\ []((PanelShown /\ selectedImageIds \in {{}, Ids(images)}) =>
            toggledAll(images, toggledAll(images, selectedImageIds)) = selectedImageIds)

(***************************************************************************)
(* EditorView: the settings across the operations on the batch.            *)
(***************************************************************************)
\* The Editor with one file uploaded at a time and every operation on its
\* batch, its prompt and its settings panel.
NextPersist ==
    \/ StartOver /\ UNCHANGED app
    \/ ImageSelect(1) /\ UNCHANGED app
    \/ (\E load \in pending : ImageSelectDone(load)) /\ UNCHANGED app
    \/ (\E id \in Ids(images) : handleRemoveImage(id)) /\ UNCHANGED app
    \/ (\E id \in Ids(images) : handleToggleSelection(id)) /\ UNCHANGED app
    \/ handleToggleSelectAll /\ UNCHANGED app
    \/ (\E value \in TypedPrompts : SetUserPrompt(value)) /\ UNCHANGED app
    \/ SettingsEdit /\ UNCHANGED app
    \/ RunStep /\ UNCHANGED <<app, sent>>

SpecPersist == Init /\ [][NextPersist]_vars

getQualityDescription(q) ==
    IF q <= 20 THEN "extremely aggressive visual compression, resulting in a very abstract image with minimal detail"
    ELSE IF q <= 40 THEN "heavy visual compression, creating a stylized version with significantly reduced detail"
    ELSE IF q <= 60 THEN "moderate visual compression, aiming for a balanced simplification of details and complexity"
    ELSE IF q <= 80 THEN "light visual compression, with a subtle reduction in detail while retaining most of the original's character"
    ELSE "very light visual compression, with minimal simplification, retaining almost all original details"

\* A description whose second band ends at 50.
getDetailLevelDescriptionWideBand(d) ==
    IF d <= 20 THEN "minimal detail, focusing only on the main shapes and colors"
    ELSE IF d <= 50 THEN "low detail, abstracting smaller elements"
    ELSE IF d <= 60 THEN "moderate detail, retaining key textures and features"
    ELSE IF d <= 80 THEN "high detail, keeping most of the fine elements intact"
    ELSE "original detail, aiming to preserve all visual information"

getDetailLevelDescription(d) ==
    IF d <= 20 THEN "minimal detail, focusing only on the main shapes and colors"
    ELSE IF d <= 40 THEN "low detail, abstracting smaller elements"
    ELSE IF d <= 60 THEN "moderate detail, retaining key textures and features"
    ELSE IF d <= 80 THEN "high detail, keeping most of the fine elements intact"
    ELSE "original detail, aiming to preserve all visual information"

\* "" for 'original'; else the clause with the two pieces of
\* resolution.split('x').
getResolutionDescription(resolution) ==
    IF resolution = <<"o", "r", "i", "g", "i", "n", "a", "l">>
    THEN <<>>
    ELSE <<" Additionally, resize the image to fit within a ">>
         \o split(resolution, "x")[1] \o <<"x">> \o split(resolution, "x")[2]
         \o <<" bounding box, maintaining the original aspect ratio. Do not stretch, distort, or crop the image; instead, scale it down proportionally to fit inside these dimensions. The final image's largest dimension should not exceed the corresponding dimension of the bounding box.">>

\* The arguments of one call of compressImageWithGemini and the prompt it
\* builds from the three descriptions.
compressImageWithGemini(q, d, resolution) ==
    [quality |-> q, detailLevel |-> d, resolution |-> resolution,
     qualityDesc |-> getQualityDescription(q),
     detailDesc |-> getDetailLevelDescription(d),
     resolutionDesc |-> getResolutionDescription(resolution),
     prompt |-> <<"Visually compress this image. The goal is to achieve ", getQualityDescription(q),
                  ". The desired level of detail is ", getDetailLevelDescription(d), ".">>
                \o getResolutionDescription(resolution)
                \o <<" The output should be a visually simplified, stylized, or abstract version of the original. Do not add any new elements or change the core subject matter. Just reduce visual complexity based on these instructions.">>]

qualityPresets == {[quality |-> 40, detailLevel |-> 40], [quality |-> 75, detailLevel |-> 75], [quality |-> 90, detailLevel |-> 90]}

resolutionPresets ==
    {<<"o", "r", "i", "g", "i", "n", "a", "l">>,
     <<"1", "9", "2", "0", "x", "1", "0", "8", "0">>,
     <<"1", "2", "8", "0", "x", "7", "2", "0">>,
     <<"6", "4", "0", "x", "4", "8", "0">>}

\* The values of the two range inputs: min="1" max="100".
Levels == 1..100

\* The values a range input at value goes to when it is moved with the
\* keys: one step down or up, or to its min or max.
SliderMoves(value) == ({value - 1, value + 1} \cap Levels) \cup {1, 100}

\* A control of the Compressor's panel is used: nothing is being processed
\* (disabled={isProcessing}).  The panel is followed up to the one call that
\* is recorded.
C_PanelEnabled ==
    /\ activeTool = "compressor"
    /\ ~isProcessing
    /\ sent = {}
    /\ UNCHANGED <<settings, localStorage, batch, run, activeTool, autoCompress, sent, changed>>

\* A preset button: setQuality(preset.quality); setDetailLevel(preset.detailLevel).
QualityPreset(preset) ==
    /\ C_PanelEnabled
    /\ quality' = preset.quality
    /\ detailLevel' = preset.detailLevel
    /\ UNCHANGED targetResolution

\* The quality slider: setQuality(Number(e.target.value)).
SetQuality(value) ==
    /\ C_PanelEnabled
    /\ quality' = value
    /\ UNCHANGED <<detailLevel, targetResolution>>

\* The detail slider: setDetailLevel(Number(e.target.value)).
SetDetailLevel(value) ==
    /\ C_PanelEnabled
    /\ detailLevel' = value
    /\ UNCHANGED <<quality, targetResolution>>

\* The resolution select: setTargetResolution(e.target.value).
SetTargetResolution(value) ==
    /\ C_PanelEnabled
    /\ targetResolution' = value
    /\ UNCHANGED <<quality, detailLevel>>

\* One call of compressImageWithGemini with the settings of the panel.
DescribeCall ==
    /\ activeTool = "compressor"
    /\ sent = {}
    /\ sent' = {compressImageWithGemini(quality, detailLevel, targetResolution)}
    /\ UNCHANGED <<settings, localStorage, batch, run, app, changed>>

NextDescribe ==
    \/ \E preset \in qualityPresets : QualityPreset(preset)
    \/ \E value \in SliderMoves(quality) : SetQuality(value)
    \/ \E value \in SliderMoves(detailLevel) : SetDetailLevel(value)
    \/ \E value \in resolutionPresets : SetTargetResolution(value)
    \/ DescribeCall

\* The Compressor's panel and the prompt of one call.
SpecDescribe == InitRunners /\ [][NextDescribe]_vars

\* C40: the quality and the detail level of a call, each in 1..100, are
\* described by the first, second, third, fourth or fifth of five different
\* texts as the value is at most 20, 40, 60, 80 or above; a slider that is
\* moved up, by a step or to its end, never moves the description to an
\* earlier text; and the
\* resolution clause is empty exactly when the target resolution is
\* 'original'.
C40_DescriptionBands ==
    /\ [](LET Band(v) == IF v <= 20 THEN 1 ELSE IF v <= 40 THEN 2 ELSE IF v <= 60 THEN 3
                         ELSE IF v <= 80 THEN 4 ELSE 5
              QualityTexts == [b \in 1..5 |-> getQualityDescription(20 * b)]
              DetailTexts == [b \in 1..5 |-> getDetailLevelDescription(20 * b)]
          IN  /\ Cardinality({QualityTexts[b] : b \in 1..5}) = 5
              /\ Cardinality({DetailTexts[b] : b \in 1..5}) = 5
              /\ \A c \in sent :
                    /\ c.quality \in 1..100 /\ c.detailLevel \in 1..100
                    /\ {b \in 1..5 : QualityTexts[b] = c.qualityDesc} = {Band(c.quality)}
                    /\ {b \in 1..5 : DetailTexts[b] = c.detailDesc} = {Band(c.detailLevel)}
                    /\ c.resolutionDesc = <<>>
                          <=> c.resolution = <<"o", "r", "i", "g", "i", "n", "a", "l">>)
    /\ [][LET QualityTexts == [b \in 1..5 |-> getQualityDescription(20 * b)]
          IN  quality' >= quality =>
                \A b1, b2 \in 1..5 :
                    (/\ QualityTexts[b1] = getQualityDescription(quality)
                     /\ QualityTexts[b2] = getQualityDescription(quality')) => b1 <= b2]_vars
    /\ [][LET DetailTexts == [b \in 1..5 |-> getDetailLevelDescription(20 * b)]
          IN  detailLevel' >= detailLevel =>
                \A b1, b2 \in 1..5 :
                    (/\ DetailTexts[b1] = getDetailLevelDescription(detailLevel)
                     /\ DetailTexts[b2] = getDetailLevelDescription(detailLevel')) => b1 <= b2]_vars

\* C40 witness: a call with a quality on the edge of a band, a detail level
\* just above one, and a target resolution.
C40_Witness ==
    \E c \in sent :
        /\ c.quality = 40
        /\ c.detailLevel = 41
        /\ c.qualityDesc # getQualityDescription(41)
        /\ c.detailDesc # getDetailLevelDescription(40)
        /\ c.resolutionDesc # <<>>

============================================================================
